---------------------------- MODULE Spec2Model ----------------------------
(***************************************************************************)
(* A model of the trading orchestration core of aegis-v3:                  *)
(*   - the six-stage intraday pipeline (pipeline/intraday_pipeline.py)     *)
(*     with the safety checker and the commander gate,                     *)
(*   - the feedback engine's streak rules and circuit breaker,             *)
(*   - the WebSocket slot manager (fetchers/websocket_manager.py),         *)
(*   - the fetcher dispatcher (fetchers/fetcher_dispatcher.py),            *)
(*   - the time-banded scheduler (scheduler/dynamic_scheduler.py),         *)
(*   - the trap detector's weight learning (brain/korean_market_traps.py), *)
(*   - the event bus (events/event_bus.py),                                *)
(*   - the order store written by execution notices, the execution sync    *)
(*     and cancellation (fetchers/kis_fetcher.py, services/order_service), *)
(*   - the portfolio manager's sell rules (brain/portfolio_manager.py),    *)
(*   - the analyzer's final score and the Commander's decision             *)
(*     (brain/analyzer.py, brain/commander.py),                            *)
(*   - the KIS client's token cache, order requests and stream handshake   *)
(*     (fetchers/kis_client.py),                                           *)
(*   - the balance sync of the stored positions (fetchers/kis_fetcher.py). *)
(* Each subsystem has its own specification over the shared variables;     *)
(* the variables of the other subsystems stay at their initial values.     *)
(***************************************************************************)
EXTENDS Integers, Sequences, FiniteSets, TLC

VARIABLES
    \* ---- intraday pipeline (one invocation of IntradayPipeline.run) ----
    pc,             \* position of run(): "idle", a stage name, or "done"
    stage,          \* result["stage"]
    stageLog,       \* history: the stages entered by this invocation, in order
    errors,         \* result["errors"], as the set of failure reasons
    picks,          \* today's daily_picks rows (stock codes, rank order)
    candidates,     \* result["candidates"]: indices of picks the analyzer marked BUY
    validated,      \* result["validated_candidates"]
    decisions,      \* the Commander's decision for each validated candidate
    approved,       \* result["commander_decisions"]
    execInput,      \* the list handed to _execute_orders
    buyOrders,      \* requests sent to the broker by this invocation
    syncFailed,     \* history: kis_fetcher.sync_portfolio raised in Fetch
    prevErrors,     \* errors of the previous invocation
    env,            \* account, portfolio and clock as the Execute stage finds them
    \* ---- safety checker called on its own ----
    safety,         \* the call's inputs and its verdict
    \* ---- feedback engine and commander gate ----
    trade_feedback,             \* result_category of the rows of trade_feedback, oldest first
    current_min_score,          \* FeedbackEngine.current_min_score
    circuit_breaker_active,     \* FeedbackEngine.circuit_breaker_active
    breakerWindow,  \* history: a 5-failure streak was recorded and no settlement tick came since
    commanderLog,   \* the Commander's last answer and the window it was given in
    settlements,    \* history: number of daily-settlement ticks
    score_adjustment_history,   \* new_min_score of the table's newest row, if any
    \* ---- fetcher dispatcher ----
    now,                \* the clock, in seconds
    running_fetchers,   \* FetcherDispatcher.running_fetchers
    last_fetch_time,    \* FetcherDispatcher.last_fetch_time, a dict
    fetchStarts,        \* history: per symbol, the times its fetches were started
    fetching,           \* the symbols whose fetch_single_stock call is executing
    suppressedAt,       \* history: per symbol, how many fetches it had started when a trigger for it was last suppressed
    regime,             \* what on_market_regime_change has done for the events delivered
    \* ---- scheduler ----
    slot,           \* the clock, in 10-minute slots from 09:00
    fired,          \* jobs whose tick of this slot the scheduler has processed
    instances,      \* per job id, its running instances
    caught,         \* history: the jobs whose envelope has caught an exception of the body
    escaped,        \* the jobs that have raised to the scheduler
    \* ---- WebSocket subscription manager ----
    slots,          \* KISWebSocketManager.slots: the dict, in insertion order
    wsTasks,        \* the calls in progress, each suspended at an await
    wsOps,          \* history: number of calls made
    wsFails,        \* history: number of frame sends that failed
    syncResult,     \* history: the last completed sync_with_portfolio
    lastCall,       \* history: the latest subscribe or reconnect call
    \* ---- trap detector's learned weights ----
    pattern_weights,    \* KoreanMarketTrapDetector.pattern_weights, in hundredths
    trapCorrect,    \* history: per pattern, the CORRECT updates applied
    trapWrong,      \* history: per pattern, the WRONG updates applied
    trapCut,        \* history: per pattern, an update was cut at a bound
    \* ---- event bus ----
    subscribers,    \* EventBus.subscribers: per event type, the callbacks in order
    event_history,  \* EventBus.event_history, as the events' types
    publishCall,    \* the publish call in progress or last made, with its tasks
    busOps,         \* history: number of subscribe and publish calls made
    \* ---- order store (trade_orders, trade_executions, portfolio) ----
    db,    \* the committed rows of the three tables
    notices,   \* history: the execution notices received, with how each call ended
    \* ---- portfolio manager ----
    holding,    \* the portfolio row of one held position
    judged,   \* history: the latest run_cycle, the row it judged and its decision
    \* ---- brain: analyzer and Commander ----
    analysis,    \* the scores of the latest analyze_candidate
    commanderCall,   \* history: the decide call made on the analysis
    \* ---- KIS client: token cache and order requests ----
    kisNow,    \* the clock, in ticks
    kis,    \* the token cache file and KISClient's access_token and token_expires_at
    tokenCalls,    \* history: the get_access_token calls made
    lastOrder,   \* history: the latest order request sent to the broker
    \* ---- KIS client: stream handshake ----
    ws_approval_key,    \* KISClient.ws_approval_key
    ws_connection,    \* KISClient.ws_connection: none, open, or lost
    approvalCalls,    \* history: calls made to the approval endpoint
    handshakes,   \* history: the approval frames sent, with the key each carried
    \* ---- balance sync ----
    positions,    \* the stored positions: per stock held, its quantity
    synced    \* history: when the latest call was a sync_portfolio that committed, its balance and the positions it left

plVars == <<pc, stage, stageLog, errors, picks, candidates, validated, decisions,
            approved, execInput, buyOrders, syncFailed, prevErrors, env>>

sfVars == <<safety>>

fbVars == <<trade_feedback, current_min_score, circuit_breaker_active,
            breakerWindow, commanderLog, settlements,
            score_adjustment_history>>

dpVars == <<now, running_fetchers, last_fetch_time, fetchStarts, fetching,
           suppressedAt, regime>>

scVars == <<slot, fired, instances, caught, escaped>>

wsVars == <<slots, wsTasks, wsOps, wsFails, syncResult, lastCall>>

trVars == <<pattern_weights, trapCorrect, trapWrong, trapCut>>

ebVars == <<subscribers, event_history, publishCall, busOps>>

orVars == <<db, notices>>

pmVars == <<holding, judged>>

brVars == <<analysis, commanderCall>>

kcVars == <<kisNow, kis, tokenCalls, lastOrder>>

ssVars == <<ws_approval_key, ws_connection, approvalCalls, handshakes>>

syVars == <<positions, synced>>

\* what each subsystem leaves alone
plOthers == <<sfVars, fbVars, dpVars, scVars, wsVars, trVars, ebVars, orVars, pmVars, brVars, kcVars, ssVars, syVars>>
sfOthers == <<plVars, fbVars, dpVars, scVars, wsVars, trVars, ebVars, orVars, pmVars, brVars, kcVars, ssVars, syVars>>
fbOthers == <<plVars, sfVars, dpVars, scVars, wsVars, trVars, ebVars, orVars, pmVars, brVars, kcVars, ssVars, syVars>>
dpOthers == <<plVars, sfVars, fbVars, scVars, wsVars, trVars, ebVars, orVars, pmVars, brVars, kcVars, ssVars, syVars>>
scOthers == <<plVars, sfVars, fbVars, dpVars, wsVars, trVars, ebVars, orVars, pmVars, brVars, kcVars, ssVars, syVars>>
wsOthers == <<plVars, sfVars, fbVars, dpVars, scVars, trVars, ebVars, orVars, pmVars, brVars, kcVars, ssVars, syVars>>
trOthers == <<plVars, sfVars, fbVars, dpVars, scVars, wsVars, ebVars, orVars, pmVars, brVars, kcVars, ssVars, syVars>>
ebOthers == <<plVars, sfVars, fbVars, dpVars, scVars, wsVars, trVars, orVars, pmVars, brVars, kcVars, ssVars, syVars>>
orOthers == <<plVars, sfVars, fbVars, dpVars, scVars, wsVars, trVars, ebVars, pmVars, brVars, kcVars, ssVars, syVars>>
pmOthers == <<plVars, sfVars, fbVars, dpVars, scVars, wsVars, trVars, ebVars, orVars, brVars, kcVars, ssVars, syVars>>
brOthers == <<plVars, sfVars, fbVars, dpVars, scVars, wsVars, trVars, ebVars, orVars, pmVars, kcVars, ssVars, syVars>>
kcOthers == <<plVars, sfVars, fbVars, dpVars, scVars, wsVars, trVars, ebVars, orVars, pmVars, brVars, ssVars, syVars>>
ssOthers == <<plVars, sfVars, fbVars, dpVars, scVars, wsVars, trVars, ebVars, orVars, pmVars, brVars, kcVars, syVars>>
syOthers == <<plVars, sfVars, fbVars, dpVars, scVars, wsVars, trVars, ebVars, orVars, pmVars, brVars, kcVars, ssVars>>

--------------------------------------------------------------------------
(* Bounds of the model *)

\* stock codes the pipeline's inputs are drawn from
Codes == {"A", "B"}

\* most daily_picks rows read by one invocation (the code reads up to 10)
MaxPicks == 2

\* most rows of trade_feedback
MaxTrades == 7

\* most daily-settlement ticks
MaxSettlements == 2

\* last second of the dispatcher's clock
MaxTime == 12

\* most calls of the subscription manager in progress at once
MaxTasks == 2

\* most calls made to the subscription manager plus frame sends that fail
MaxOps == 2

\* most bulk calls (update_daily_picks, reconnect) in progress at once: each
\* has one caller, the 07:20 analysis job and the listen loop
MaxBulkCalls == 1

\* a bulk call shares the event loop with another call only while the table
\* and the bulk call's work list together have at most this many entries
InterleaveLimit == 8

\* most record_feedback calls that update the weight of one pattern
MaxFeedbacks == 14

\* most subscribe and publish calls made on the event bus
MaxBusOps == 5

\* most execution notices received
MaxNotices == 2

\* most portfolio-manager cycles
MaxCycles == 3

\* most get_access_token calls
MaxTokenCalls == 2

\* last tick of the KIS client's clock
MaxClock == 3

\* most stream handshakes
MaxConnects == 3

\* most calls of the approval endpoint
MaxApprovalCalls == 4

\* most shares of one stock that buy fills add up to
MaxHolding == 3

--------------------------------------------------------------------------
(* Helpers *)

Range(s) == {s[i] : i \in 1..Len(s)}

SeqsUpTo(S, n) == UNION {[1..k -> S] : k \in 0..n}

\* The indices of set I in increasing order, as a sequence
RECURSIVE SortedSeq(_)
SortedSeq(I) ==
    IF I = {} THEN << >>
    ELSE LET m == CHOOSE x \in I : \A y \in I : x <= y
         IN  <<m>> \o SortedSeq(I \ {m})

--------------------------------------------------------------------------
(* Safety checker: brain/safety_checker.py *)

MAX_HOLDINGS == 5
MAX_DAILY_TRADES == 4
FRIDAY_CUTOFF == 14 * 60 + 30        \* time(14, 30), in minutes of the day
MAX_ACCOUNT_LOSS_PCT == -2
MAX_POSITION_WEIGHT_PCT == 10

\* KISFetcher defines sync_portfolio, on_execution_notice, sync_execution and
\* the portfolio updaters, and no get_account_balance: the call in checks 4
\* and 5 raises AttributeError, which each check's except clause turns into
\* "passed".
KisFetcherHasGetAccountBalance == FALSE

CheckHoldingsCount(e) ==
    IF e.dbDown THEN FALSE ELSE e.holdings < MAX_HOLDINGS

CheckDailyTrades(e) ==
    IF e.dbDown THEN FALSE ELSE e.trades < MAX_DAILY_TRADES

CheckFridayCutoff(e) ==
    ~(e.weekday = 4 /\ e.minute >= FRIDAY_CUTOFF)

CheckAccountLoss(e) ==
    IF ~KisFetcherHasGetAccountBalance THEN TRUE
    ELSE IF e.deposit = 0 THEN 0 > MAX_ACCOUNT_LOSS_PCT
    ELSE (e.totalAsset - e.deposit) * 100 > MAX_ACCOUNT_LOSS_PCT * e.deposit

CheckPositionWeight(e, quantity, price) ==
    IF ~KisFetcherHasGetAccountBalance THEN TRUE
    ELSE IF e.totalAsset = 0 THEN FALSE
    ELSE quantity * price * 100 <= MAX_POSITION_WEIGHT_PCT * e.totalAsset

\* check_buy_safety: approved iff all five checks passed
CheckBuySafety(e, quantity, price) ==
    /\ CheckHoldingsCount(e)
    /\ CheckDailyTrades(e)
    /\ CheckFridayCutoff(e)
    /\ CheckAccountLoss(e)
    /\ CheckPositionWeight(e, quantity, price)

--------------------------------------------------------------------------
(* Execute stage: IntradayPipeline._execute_orders *)

MIN_AVAILABLE == 1000000

\* budget_per_stock and estimated_quantity, lines 410-414
EstimatedQuantity(e) ==
    LET budget == IF e.available \div 5 < MIN_AVAILABLE
                  THEN e.available ELSE e.available \div 5
    IN  IF e.price > 0 THEN budget \div e.price ELSE 0

\* portfolio_service.get_portfolio and get_deposit are `async def` and are
\* called without await (lines 383, 401), so each returns a coroutine object.
\* `for stock in portfolio` (line 385) iterates that object: TypeError, raised
\* outside the per-candidate try, so it leaves _execute_orders.
PortfolioIterationRaises == TRUE

\* The buy loop (lines 394-443), were it reached: `deposit.get(...)` on the
\* coroutine object raises AttributeError inside the per-candidate try, which
\* logs and goes on to the next candidate; and the call of
\* order_service.place_buy_order is commented out (lines 430-438).  No
\* candidate yields a request to the broker.
BuyLoop(cands, e) == << >>

\* A buy loop that sends every candidate it is handed to the order service.
BuyLoopSubmitAll(cands, e) ==
    [i \in 1..Len(cands) |->
        [code |-> cands[i].code, idx |-> cands[i].idx,
         quantity |-> EstimatedQuantity(e), price |-> e.price]]

ExecuteOrdersSubmitting(cands, e) ==
    [raised |-> FALSE, buys |-> BuyLoopSubmitAll(cands, e)]

\* _execute_orders as a whole
ExecuteOrders(cands, e) ==
    IF PortfolioIterationRaises
    THEN [raised |-> TRUE, buys |-> << >>]
    ELSE [raised |-> FALSE, buys |-> BuyLoop(cands, e)]

--------------------------------------------------------------------------
(* Commander gate: BrainCommander.decide and _commander_decide *)

\* What the LLM call can yield: a decision, an unparsable answer or an API error
LLMAnswers == {"BUY", "HOLD", "SELL", "unparsable", "api_error"}

\* BrainCommander.decide: the prompt is sent to the LLM whatever the scores,
\* the regime or the feedback engine's state; the answer is parsed and
\* returned.  Parse failure and API error both give HOLD.
Decide(llm) ==
    IF llm \in {"BUY", "HOLD", "SELL"} THEN llm ELSE "HOLD"

--------------------------------------------------------------------------
(* Pipeline actions *)

Stages == <<"fetching", "preprocessing", "brain", "validation", "commander",
            "execution">>

Envs ==
    [holdings : {4, 5}, trades : {3}, weekday : {4},
     minute : {FRIDAY_CUTOFF - 1, FRIDAY_CUTOFF},
     totalAsset : {25000000}, deposit : {10000000},
     available : {900000, 10000000}, price : {50000}, dbDown : {FALSE}]

PlInit ==
    /\ pc = "idle"
    /\ stage = "none"
    /\ stageLog = << >>
    /\ errors = {}
    /\ picks = << >>
    /\ candidates = {}
    /\ validated = {}
    /\ decisions = << >>
    /\ approved = {}
    /\ execInput = << >>
    /\ buyOrders = << >>
    /\ syncFailed = FALSE
    /\ prevErrors = {}
    /\ env \in Envs

\* A candidate list in rank order from a set of pick indices
CandList(I) ==
    LET s == SortedSeq(I)
    IN  [k \in 1..Len(s) |-> [code |-> picks[s[k]], idx |-> s[k]]]

\* run(): the result is initialised and stage 1 is entered (lines 55-74)
StartRun ==
    /\ pc \in {"idle", "done"}
    /\ pc' = "fetching"
    /\ stage' = "fetching"
    /\ stageLog' = <<"fetching">>
    /\ prevErrors' = errors
    /\ errors' = {}
    /\ picks' \in SeqsUpTo(Codes, MaxPicks)
    /\ candidates' = {}
    /\ validated' = {}
    /\ decisions' = << >>
    /\ approved' = {}
    /\ execInput' = << >>
    /\ buyOrders' = << >>
    /\ syncFailed' = FALSE
    /\ UNCHANGED env

\* _fetch_latest_data: each sync is wrapped in try/except that logs and goes
\* on, so the stage always returns; then stage 2 is entered (line 81)
Fetch ==
    /\ pc = "fetching"
    /\ \E portfolioOk \in BOOLEAN : syncFailed' = ~portfolioOk
    /\ pc' = "preprocessing"
    /\ stage' = "preprocessing"
    /\ stageLog' = Append(stageLog, "preprocessing")
    /\ UNCHANGED <<errors, picks, candidates, validated, decisions, approved,
                   execInput, buyOrders, prevErrors, env>>

\* The invocation ends in the except clause of run() (lines 134-136)
Fail(reason) ==
    /\ pc' = "done"
    /\ errors' = errors \cup {reason}
    /\ UNCHANGED <<stage, stageLog>>

\* Stage 2: db.commit() (lines 85-86), which may raise
Preprocess ==
    /\ pc = "preprocessing"
    /\ \E dbOk \in BOOLEAN :
          IF dbOk
          THEN /\ pc' = "brain"
               /\ stage' = "brain"
               /\ stageLog' = Append(stageLog, "brain")
               /\ UNCHANGED errors
          ELSE Fail("db_commit")
    /\ UNCHANGED <<picks, candidates, validated, decisions, approved,
                   execInput, buyOrders, syncFailed, prevErrors, env>>

\* Stage 3: _brain_analyze keeps the picks the analyzer recommends BUY; a BUY
\* pick whose price is 0 raises ZeroDivisionError at line 255
Brain ==
    /\ pc = "brain"
    /\ \/ /\ \E I \in SUBSET (1..Len(picks)) : candidates' = I
          /\ pc' = "validation"
          /\ stage' = "validation"
          /\ stageLog' = Append(stageLog, "validation")
          /\ UNCHANGED errors
       \/ /\ picks # << >>
          /\ Fail("analyze")
          /\ UNCHANGED candidates
    /\ UNCHANGED <<picks, validated, decisions, approved, execInput,
                   buyOrders, syncFailed, prevErrors, env>>

\* A validation stage that hands its result straight to the Execute stage
ValidateThenExecute ==
    /\ pc = "validation"
    /\ \E I \in SUBSET candidates : validated' = I
    /\ pc' = "execution"
    /\ stage' = "execution"
    /\ stageLog' = Append(stageLog, "execution")
    /\ UNCHANGED <<errors, picks, candidates, decisions, approved, execInput,
                   buyOrders, syncFailed, prevErrors, env>>

\* Stage 4: _validate_candidates keeps the approved candidates; a validator
\* exception drops that candidate only
Validate ==
    /\ pc = "validation"
    /\ \E I \in SUBSET candidates : validated' = I
    /\ pc' = "commander"
    /\ stage' = "commander"
    /\ stageLog' = Append(stageLog, "commander")
    /\ UNCHANGED <<errors, picks, candidates, decisions, approved, execInput,
                   buyOrders, syncFailed, prevErrors, env>>

\* Stage 5: _commander_decide asks the Commander for every validated
\* candidate and keeps those it answers BUY for (lines 287-303); then stage 6
\* is entered (line 124)
Command ==
    /\ pc = "commander"
    /\ \E llm \in [validated -> LLMAnswers] :
          /\ decisions' = [i \in validated |-> Decide(llm[i])]
          /\ approved' = {i \in validated : Decide(llm[i]) = "BUY"}
    /\ pc' = "execution"
    /\ stage' = "execution"
    /\ stageLog' = Append(stageLog, "execution")
    /\ UNCHANGED <<errors, picks, candidates, validated, execInput,
                   buyOrders, syncFailed, prevErrors, env>>

\* Stage 6: run() calls _execute_orders(validated_candidates) (line 127)
Execute ==
    /\ pc = "execution"
    /\ execInput' = CandList(validated)
    /\ LET r == ExecuteOrders(CandList(validated), env)
       IN  /\ buyOrders' = r.buys
           /\ errors' = IF r.raised THEN errors \cup {"TypeError"} ELSE errors
    /\ pc' = "done"
    /\ UNCHANGED <<stage, stageLog, picks, candidates, validated, decisions,
                   approved, syncFailed, prevErrors, env>>

PlNext ==
    \/ StartRun /\ UNCHANGED plOthers
    \/ Fetch /\ UNCHANGED plOthers
    \/ Preprocess /\ UNCHANGED plOthers
    \/ Brain /\ UNCHANGED plOthers
    \/ Validate /\ UNCHANGED plOthers
    \/ Command /\ UNCHANGED plOthers
    \/ Execute /\ UNCHANGED plOthers

--------------------------------------------------------------------------
(* Properties of the pipeline *)

\* The five gates of the safety contract, on the account as it is
SafetyConditionsHold(e, quantity, price) ==
    /\ e.holdings < MAX_HOLDINGS
    /\ e.trades < MAX_DAILY_TRADES
    /\ ~(e.weekday = 4 /\ e.minute >= FRIDAY_CUTOFF)
    /\ (e.totalAsset - e.deposit) * 100 > MAX_ACCOUNT_LOSS_PCT * e.deposit
    /\ quantity * price * 100 <= MAX_POSITION_WEIGHT_PCT * e.totalAsset

\* C4: within one invocation no two broker submissions are for the same
\* symbol and side (all submissions of the buy loop are buys).
OrderIdempotence ==
    \A j, k \in 1..Len(buyOrders) :
        buyOrders[j].code = buyOrders[k].code => j = k

\* C4 witness: the Execute stage has run on a list in which one symbol
\* appears twice, and at most one submission was made for it.
OrderIdempotenceWitness ==
    /\ pc = "done"
    /\ stage = "execution"
    /\ \E j, k \in 1..Len(execInput) :
          j # k /\ execInput[j].code = execInput[k].code
    /\ Len(buyOrders) <= 1

\* C5 as claimed: every candidate handed to the Execute stage is one the
\* Commander answered BUY for.
ExecuteOnlyCommanderApproved ==
    \A k \in 1..Len(execInput) : execInput[k].idx \in approved

IsPrefix(s, t) == Len(s) <= Len(t) /\ \A i \in 1..Len(s) : s[i] = t[i]

ShortCircuitOnFailure ==
    /\ syncFailed => stageLog = <<"fetching">>
    /\ (syncFailed /\ pc = "done") => errors # {}
    /\ "db_commit" \in errors => stageLog = SubSeq(Stages, 1, 2)
    /\ "analyze" \in errors => stageLog = SubSeq(Stages, 1, 3)
    /\ errors # {} => pc = "done"
    /\ pc = "fetching" => (stageLog = <<"fetching">> /\ errors = {})

\* C29 as claimed: for each candidate the Commander approved and the safety
\* check passes, the invocation submits exactly one buy order, of quantity
\* floor((available cash / 5) / price).
ApprovedPassingGetsOneBuy ==
    LET quantity == (env.available \div 5) \div env.price
    IN  (/\ pc = "done" /\ stage = "execution"
         /\ env.available >= MIN_AVAILABLE
         /\ SafetyConditionsHold(env, quantity, env.price))
        => \A k \in 1..Len(execInput) :
              execInput[k].idx \in approved =>
                  /\ Cardinality({j \in 1..Len(buyOrders) :
                                    buyOrders[j].idx = execInput[k].idx}) = 1
                  /\ \A j \in 1..Len(buyOrders) :
                        buyOrders[j].idx = execInput[k].idx
                            => buyOrders[j].quantity = quantity

--------------------------------------------------------------------------
(* Safety checker called on its own: SafetyChecker.check_buy_safety *)

SafetyEnvs ==
    [holdings : {4, 5}, trades : {3, 4}, weekday : {3, 4},
     minute : {FRIDAY_CUTOFF - 1, FRIDAY_CUTOFF},
     totalAsset : {10000000, 25000000}, deposit : {10000000, 10300000},
     available : {10000000}, price : {50000}, dbDown : BOOLEAN]

SfInit == safety \in [e : SafetyEnvs, result : {"none"}]

SfIdle == safety = [e |-> CHOOSE x \in SafetyEnvs : TRUE, result |-> "none"]

\* One call of check_buy_safety for the quantity the buy loop computes
CallCheckBuySafety ==
    /\ safety.result = "none"
    /\ safety' = [safety EXCEPT !.result =
                    IF CheckBuySafety(safety.e, EstimatedQuantity(safety.e),
                                      safety.e.price)
                    THEN "approved" ELSE "rejected"]

SfNext ==
    \/ CallCheckBuySafety /\ UNCHANGED sfOthers

--------------------------------------------------------------------------
(* Feedback engine: feedback/feedback_engine.py *)

CONSECUTIVE_LOSS_TRIGGER == 3
CIRCUIT_BREAKER_TRIGGER == 5
CONSECUTIVE_WIN_TRIGGER == 5
AUTO_MIN_SCORE_INCREASE == 3
AUTO_MIN_SCORE_DECREASE == 2
MIN_SCORE_LOWER_BOUND == 65
MIN_SCORE_UPPER_BOUND == 80
DEFAULT_MIN_SCORE == 70
QUERY_LIMIT == 10

Categories == {"SUCCESS", "FAILURE", "NEUTRAL"}

Min(a, b) == IF a <= b THEN a ELSE b
Max(a, b) == IF a >= b THEN a ELSE b

\* SELECT ... ORDER BY created_at DESC LIMIT 10: the newest rows, newest first
RecentResults(log) ==
    LET n == Min(Len(log), QUERY_LIMIT)
    IN  [i \in 1..n |-> log[Len(log) + 1 - i]]

\* The loop that counts the leading rows of one category
RECURSIVE Streak(_, _)
Streak(results, cat) ==
    IF results = << >> \/ Head(results) # cat THEN 0
    ELSE 1 + Streak(Tail(results), cat)

\* an increase that is not cut at the upper bound
AutoIncreaseUncapped(score) == score + AUTO_MIN_SCORE_INCREASE

\* _auto_increase_min_score and _auto_decrease_min_score
AutoIncreaseMinScore(score) == Min(MIN_SCORE_UPPER_BOUND, score + AUTO_MIN_SCORE_INCREASE)
AutoDecreaseMinScore(score) == Max(MIN_SCORE_LOWER_BOUND, score - AUTO_MIN_SCORE_DECREASE)

\* check_consecutive_losses: the engine's score and breaker after the check,
\* and whether an adjustment was applied
CheckConsecutiveLosses(log, score, breaker) ==
    LET results == RecentResults(log)
        losses == Streak(results, "FAILURE")
    IN  IF Len(results) < CONSECUTIVE_LOSS_TRIGGER
        THEN [score |-> score, breaker |-> breaker, adjusted |-> FALSE]
        ELSE IF losses >= CIRCUIT_BREAKER_TRIGGER
        THEN [score |-> AutoIncreaseMinScore(score), breaker |-> TRUE,
              adjusted |-> TRUE]
        ELSE IF losses >= CONSECUTIVE_LOSS_TRIGGER
        THEN [score |-> AutoIncreaseMinScore(score), breaker |-> breaker,
              adjusted |-> TRUE]
        ELSE [score |-> score, breaker |-> breaker, adjusted |-> FALSE]

\* check_consecutive_wins: the engine's score after the check, and whether an
\* adjustment was applied
CheckConsecutiveWins(log, score) ==
    LET results == RecentResults(log)
    IN  IF Len(results) < CONSECUTIVE_WIN_TRIGGER
        THEN [score |-> score, adjusted |-> FALSE]
        ELSE IF Streak(results, "SUCCESS") >= CONSECUTIVE_WIN_TRIGGER
        THEN [score |-> AutoDecreaseMinScore(score), adjusted |-> TRUE]
        ELSE [score |-> score, adjusted |-> FALSE]

\* _apply_adjustment: the engine's score is set (by the caller here) and a row
\* is inserted into score_adjustment_history
ApplyAdjustment(history, adjusted, new_min_score) ==
    IF adjusted THEN <<new_min_score>> ELSE history

\* _load_current_min_score: new_min_score of the newest row, or the default
LoadCurrentMinScore(history) ==
    IF history = << >> THEN DEFAULT_MIN_SCORE ELSE history[Len(history)]

NoAnswer == [answer |-> "none", window |-> FALSE, active |-> FALSE]

FbInit ==
    /\ trade_feedback = << >>
    /\ current_min_score = DEFAULT_MIN_SCORE
    /\ circuit_breaker_active = FALSE
    /\ breakerWindow = FALSE
    /\ commanderLog = NoAnswer
    /\ settlements = 0
    /\ score_adjustment_history = << >>

\* a process_trade_exit that saves the row and checks no streak
ProcessTradeExitSaveOnly ==
    /\ Len(trade_feedback) < MaxTrades
    /\ \E cat \in Categories : trade_feedback' = Append(trade_feedback, cat)
    /\ UNCHANGED <<current_min_score, circuit_breaker_active, breakerWindow,
                   commanderLog, settlements, score_adjustment_history>>

\* process_trade_exit: classify, save the row, then _check_consecutive_losses
ProcessTradeExit ==
    /\ Len(trade_feedback) < MaxTrades
    /\ \E cat \in Categories :
          LET log == Append(trade_feedback, cat)
              r == CheckConsecutiveLosses(log, current_min_score,
                                          circuit_breaker_active)
          IN  /\ trade_feedback' = log
              /\ current_min_score' = r.score
              /\ circuit_breaker_active' = r.breaker
              /\ score_adjustment_history' =
                    ApplyAdjustment(score_adjustment_history, r.adjusted, r.score)
              /\ breakerWindow' =
                    (breakerWindow \/
                     Streak(RecentResults(log), "FAILURE") >= CIRCUIT_BREAKER_TRIGGER)
    /\ UNCHANGED <<commanderLog, settlements>>

\* check_consecutive_losses called on its own, as AutoTrader.run_cycle and
\* the dashboards do: it adjusts the score whenever it is called
PollConsecutiveLosses ==
    /\ LET r == CheckConsecutiveLosses(trade_feedback, current_min_score,
                                       circuit_breaker_active)
       IN  /\ current_min_score' = r.score
           /\ circuit_breaker_active' = r.breaker
           /\ score_adjustment_history' =
                 ApplyAdjustment(score_adjustment_history, r.adjusted, r.score)
    /\ UNCHANGED <<trade_feedback, breakerWindow, commanderLog, settlements>>

\* check_consecutive_wins, called by the dashboards and the trader's report
PollConsecutiveWins ==
    /\ LET r == CheckConsecutiveWins(trade_feedback, current_min_score)
       IN  /\ current_min_score' = r.score
           /\ score_adjustment_history' =
                 ApplyAdjustment(score_adjustment_history, r.adjusted, r.score)
    /\ UNCHANGED <<trade_feedback, circuit_breaker_active, breakerWindow,
                   commanderLog, settlements>>

\* BrainCommander.decide for a candidate that analysis and validation passed
CommanderDecide ==
    /\ \E llm \in LLMAnswers :
          commanderLog' = [answer |-> Decide(llm), window |-> breakerWindow,
                           active |-> circuit_breaker_active]
    /\ UNCHANGED <<trade_feedback, current_min_score, circuit_breaker_active,
                   breakerWindow, settlements, score_adjustment_history>>

\* DynamicScheduler._daily_settlement: logs; the settlement logic is a TODO
DailySettlement ==
    /\ settlements < MaxSettlements
    /\ settlements' = settlements + 1
    /\ breakerWindow' = FALSE
    /\ UNCHANGED <<trade_feedback, current_min_score, circuit_breaker_active,
                   commanderLog, score_adjustment_history>>

\* FeedbackEngine.__init__ in a new process: the score is loaded from the
\* adjustment history and the breaker flag starts False
NewEngine ==
    /\ current_min_score' = LoadCurrentMinScore(score_adjustment_history)
    /\ circuit_breaker_active' = FALSE
    /\ UNCHANGED <<trade_feedback, breakerWindow, commanderLog, settlements,
                   score_adjustment_history>>

FbNext ==
    \/ ProcessTradeExit /\ UNCHANGED fbOthers
    \/ PollConsecutiveLosses /\ UNCHANGED fbOthers
    \/ PollConsecutiveWins /\ UNCHANGED fbOthers
    \/ CommanderDecide /\ UNCHANGED fbOthers
    \/ DailySettlement /\ UNCHANGED fbOthers
    \/ NewEngine /\ UNCHANGED fbOthers

\* C2 as claimed: from the fifth consecutive failure exit until the next
\* daily-settlement tick the Commander gate lets no buy through.
CircuitBreakerRefusesBuys ==
    ~(commanderLog.window /\ commanderLog.answer = "BUY")

\* the newest n rows of the log all have category cat
LastAre(log, n, cat) ==
    /\ Len(log) >= n
    /\ \A i \in (Len(log) - n + 1)..Len(log) : log[i] = cat

\* a step that processes a trade exit
ExitProcessed == Len(trade_feedback') = Len(trade_feedback) + 1

\* C13: MIN_SCORE is within [65, 80] in every state, and so is the value a
\* new engine loads from the adjustment history.
MinScoreBounds ==
    /\ current_min_score \in MIN_SCORE_LOWER_BOUND..MIN_SCORE_UPPER_BOUND
    /\ LoadCurrentMinScore(score_adjustment_history)
          \in MIN_SCORE_LOWER_BOUND..MIN_SCORE_UPPER_BOUND

\* C13's case: an increase was cut at the upper bound and recorded
MinScoreBoundsWitness ==
    /\ current_min_score = MIN_SCORE_UPPER_BOUND
    /\ score_adjustment_history = <<MIN_SCORE_UPPER_BOUND>>
    /\ LastAre(trade_feedback, CONSECUTIVE_LOSS_TRIGGER, "FAILURE")

\* C14 as claimed: after a daily-settlement tick, and until another streak of
\* five failures is recorded, the circuit breaker is not active.
SettlementClearsBreaker ==
    (settlements > 0 /\ ~breakerWindow) => ~circuit_breaker_active

\* C15: a trade exit that makes the three newest exits all failures raises
\* MIN_SCORE by 3, to at most 80, in the step that processes it; from the
\* default 70 the third failure in a row gives 73.
ThirdFailureBump ==
    [][(ExitProcessed /\ LastAre(trade_feedback', CONSECUTIVE_LOSS_TRIGGER, "FAILURE"))
        => /\ current_min_score' =
                Min(MIN_SCORE_UPPER_BOUND, current_min_score + AUTO_MIN_SCORE_INCREASE)
           /\ current_min_score = DEFAULT_MIN_SCORE => current_min_score' = 73]_fbVars

\* C15's case: three failures in a row were processed from the default score
ThirdFailureBumpWitness ==
    /\ trade_feedback = <<"FAILURE", "FAILURE", "FAILURE">>
    /\ current_min_score = 73
    /\ score_adjustment_history = <<73>>

\* C16 as claimed: a trade exit that makes the five newest exits all
\* successes lowers MIN_SCORE by 2, to at least 65, in the step that
\* processes it.
FifthSuccessRelief ==
    [][(ExitProcessed /\ LastAre(trade_feedback', CONSECUTIVE_WIN_TRIGGER, "SUCCESS"))
        => current_min_score' =
             Max(MIN_SCORE_LOWER_BOUND, current_min_score - AUTO_MIN_SCORE_DECREASE)]_fbVars

\* C37 as claimed: within one streak of failure exits MIN_SCORE is raised
\* only by the exit that makes the streak 3 long; the exit that makes it 4
\* long leaves MIN_SCORE as it was.
ThirdFailureOnly ==
    [][ExitProcessed =>
         LET streak == Streak(RecentResults(trade_feedback'), "FAILURE")
         IN  /\ current_min_score' > current_min_score
                   => streak = CONSECUTIVE_LOSS_TRIGGER
             /\ streak = CONSECUTIVE_LOSS_TRIGGER + 1
                   => current_min_score' = current_min_score]_fbVars

--------------------------------------------------------------------------
(* Fetcher dispatcher: fetchers/fetcher_dispatcher.py *)

\* minimum seconds between two fetches of one symbol (`if elapsed < 10`)
THROTTLE_SECONDS == 10

DpCodes == {"A", "B"}

\* the events whose handlers call trigger_fetcher
FetchEvents == {"EXECUTION_NOTICE", "BREAKING_NEWS", "HOT_STOCK_FOUND",
                "DART_DISCLOSURE"}

\* d[key] = value on a dict
DictSet(d, key, value) ==
    [k \in DOMAIN d \cup {key} |-> IF k = key THEN value ELSE d[k]]

\* no MARKET_REGIME_CHANGE event has been delivered
NoRegimeEvent == [seen |-> FALSE, recheck |-> FALSE, fetch |-> FALSE]

DpInit ==
    /\ now = 0
    /\ running_fetchers = {}
    /\ last_fetch_time = [c \in {} |-> 0]
    /\ fetchStarts = [c \in DpCodes |-> << >>]
    /\ fetching = {}
    /\ suppressedAt = [c \in DpCodes |-> 0]
    /\ regime = NoRegimeEvent

\* trigger_fetcher up to its await: the two tests and the marking run without
\* a suspension point between them
Suppressed(code) ==
    \/ code \in running_fetchers
    \/ /\ code \in DOMAIN last_fetch_time
       /\ now - last_fetch_time[code] < THROTTLE_SECONDS

\* trigger_fetcher with the in-flight test only
TriggerFetcherUnthrottled(code) ==
    /\ code \notin running_fetchers
    /\ running_fetchers' = running_fetchers \cup {code}
    /\ last_fetch_time' = DictSet(last_fetch_time, code, now)
    /\ fetchStarts' = [fetchStarts EXCEPT ![code] = Append(@, now)]
    /\ fetching' = fetching \cup {code}
    /\ UNCHANGED <<now, suppressedAt, regime>>

TriggerFetcher(code) ==
    /\ ~Suppressed(code)
    /\ running_fetchers' = running_fetchers \cup {code}
    /\ last_fetch_time' = DictSet(last_fetch_time, code, now)
    /\ fetchStarts' = [fetchStarts EXCEPT ![code] = Append(@, now)]
    /\ fetching' = fetching \cup {code}
    /\ UNCHANGED <<now, suppressedAt, regime>>

\* An event is delivered to its handler (on_execution_notice,
\* on_breaking_news, on_hot_stock_found, on_dart_disclosure), which calls
\* trigger_fetcher for the event's stock_code; the fetch starts
OnEventStart ==
    \E evt \in FetchEvents, code \in DpCodes : TriggerFetcher(code)

\* the two early returns of trigger_fetcher, with the time stamp refreshed
EarlyReturnStamps(lft, code, t) == DictSet(lft, code, t)

\* the two early returns of trigger_fetcher: last_fetch_time is written only
\* after both tests have passed, so a return leaves it alone
EarlyReturn(lft, code, t) == lft

\* An event is delivered and trigger_fetcher returns at one of its two tests
OnEventSuppressed ==
    \E evt \in FetchEvents, code \in DpCodes :
        /\ Suppressed(code)
        /\ last_fetch_time' = EarlyReturn(last_fetch_time, code, now)
        /\ suppressedAt' = [suppressedAt EXCEPT ![code] = Len(fetchStarts[code])]
        /\ UNCHANGED <<now, running_fetchers, fetchStarts, fetching, regime>>

\* how fetch_single_stock can end: it returns, or it raises
FetchOutcomes == {"returns", "raises"}

\* a discard that only the normal return reaches
DiscardOnReturn(running, code, outcome) ==
    IF outcome = "returns" THEN running \ {code} ELSE running

\* the except clause logs and the finally clause discards the symbol, on
\* either outcome
Finally(running, code, outcome) == running \ {code}

\* stock_fetcher.fetch_single_stock returns or raises and trigger_fetcher
\* runs to its end
FetchComplete ==
    /\ \E code \in fetching, outcome \in FetchOutcomes :
          /\ fetching' = fetching \ {code}
          /\ running_fetchers' = Finally(running_fetchers, code, outcome)
    /\ UNCHANGED <<now, last_fetch_time, fetchStarts, suppressedAt, regime>>

\* A MARKET_REGIME_CHANGE event is delivered: on_market_regime_change reads
\* regime and reason, logs a warning and ends at `pass`
OnMarketRegimeChange ==
    /\ regime' = [seen |-> TRUE, recheck |-> FALSE, fetch |-> FALSE]
    /\ UNCHANGED <<now, running_fetchers, last_fetch_time, fetchStarts,
                   fetching, suppressedAt>>

\* A second passes
ClockTick ==
    /\ now < MaxTime
    /\ now' = now + 1
    /\ UNCHANGED <<running_fetchers, last_fetch_time, fetchStarts, fetching,
                   suppressedAt, regime>>

DpNext ==
    \/ OnEventStart /\ UNCHANGED dpOthers
    \/ OnEventSuppressed /\ UNCHANGED dpOthers
    \/ FetchComplete /\ UNCHANGED dpOthers
    \/ ClockTick /\ UNCHANGED dpOthers
    \/ OnMarketRegimeChange /\ UNCHANGED dpOthers

\* C6: for every symbol, any two fetch starts are at least 10 seconds apart,
\* so no 10-second window holds two starts for it.
Debounce ==
    \A code \in DpCodes :
        \A i, j \in 1..Len(fetchStarts[code]) :
            i < j => fetchStarts[code][j] - fetchStarts[code][i] >= THROTTLE_SECONDS

\* C6 witness: a symbol has been fetched twice, the second fetch started
\* while the other symbol's fetch was in flight.
DebounceWitness ==
    \E code \in DpCodes :
        /\ Len(fetchStarts[code]) >= 2
        /\ code \in running_fetchers
        /\ running_fetchers # {code}

\* C31: once a regime-change event has been delivered, the dispatcher has
\* made the portfolio-wide recheck (the call into the subscription manager
\* and the pipeline) and has started no per-symbol fetch for it.
RegimeChangeRechecks ==
    regime.seen => (regime.recheck /\ ~regime.fetch)

\* the last start of a fetch for the symbol
LastStart(code) == fetchStarts[code][Len(fetchStarts[code])]

\* C33: the in-flight set holds exactly the symbols whose fetch is running:
\* a fetch that has ended, by return or by exception, has left it.
InFlightExact ==
    running_fetchers = fetching

\* C33 witness: one symbol's fetch has ended and another's is running, and
\* the in-flight set holds the second only.
InFlightExactWitness ==
    \E c1, c2 \in DpCodes :
        /\ c1 # c2
        /\ Len(fetchStarts[c1]) >= 1
        /\ c1 \notin fetching
        /\ fetching = {c2}
        /\ running_fetchers = {c2}

\* C40: a symbol with no fetch in flight whose last fetch started at least
\* 10 seconds ago is not suppressed: the next trigger for it starts a fetch,
\* whatever triggers were suppressed since.
SuppressionDoesNotPostpone ==
    \A code \in DpCodes :
        (/\ code \notin fetching
         /\ Len(fetchStarts[code]) >= 1 => now - LastStart(code) >= THROTTLE_SECONDS)
        => ENABLED TriggerFetcher(code)

\* C40 witness: a trigger for the symbol was suppressed after its first
\* fetch started, and its second fetch has started since.
SuppressionDoesNotPostponeWitness ==
    \E code \in DpCodes :
        /\ suppressedAt[code] = 1
        /\ Len(fetchStarts[code]) = 2

--------------------------------------------------------------------------
(* Scheduler: scheduler/dynamic_scheduler.py *)

\* The scheduler is built with no job_defaults and the jobs are added with no
\* max_instances, so each job id may have one running instance.
MAX_INSTANCES == 1

\* 15:20, the last pipeline tick of the day, in slots from 09:00
LastSlot == 38

Hour(s) == 9 + s \div 6
Minute(s) == 10 * (s % 6)

PipelineJobs == {"intraday_morning", "intraday_lunch", "intraday_afternoon",
                 "intraday_closing"}

\* the jobs of the trading session: the four pipeline jobs and the
\* portfolio manager job
SessionJobs == PipelineJobs \cup {"portfolio_manager"}

\* The cron trigger of each pipeline job
Due(job, s) ==
    CASE job = "intraday_morning" -> Hour(s) = 9
      [] job = "intraday_lunch" -> Hour(s) \in 10..12 /\ Minute(s) = 0
      [] job = "intraday_afternoon" -> Hour(s) \in 13..14 /\ Minute(s) \in {0, 20, 40}
      [] job = "intraday_closing" -> Hour(s) = 15 /\ Minute(s) \in {0, 10, 20}
      [] job = "portfolio_manager" -> Hour(s) \in 9..15

\* check_market_hours on a weekday: 09:00 <= now <= 15:30
MarketOpen(s) == Hour(s) * 60 + Minute(s) <= 15 * 60 + 30

\* pipeline invocations in flight
InFlight ==
    LET n(job) == instances[job]
    IN  n("intraday_morning") + n("intraday_lunch") + n("intraday_afternoon")
        + n("intraday_closing")

ScInit ==
    /\ slot = 0
    /\ fired = {}
    /\ instances = [job \in SessionJobs |-> 0]
    /\ caught = {}
    /\ escaped = {}

\* A job's tick comes due and the job has no running instance: the scheduler
\* starts _intraday_pipeline_wrapper, which runs the pipeline
TickStart ==
    \E job \in SessionJobs \ fired :
        /\ Due(job, slot)
        /\ instances[job] < MAX_INSTANCES
        /\ job \in PipelineJobs => MarketOpen(slot)
        /\ instances' = [instances EXCEPT ![job] = @ + 1]
        /\ fired' = fired \cup {job}
        /\ UNCHANGED <<slot, caught, escaped>>

\* A job's tick comes due while its own previous instance is running: the
\* scheduler skips the run
TickSkip ==
    \E job \in SessionJobs \ fired :
        /\ Due(job, slot)
        /\ instances[job] >= MAX_INSTANCES
        /\ fired' = fired \cup {job}
        /\ UNCHANGED <<slot, instances, caught, escaped>>

\* how the body of a job (intraday_pipeline.run, portfolio_manager.run_cycle
\* and the logging after it) can end: it returns, or it raises an Exception
BodyOutcomes == {"returns", "raises"}

\* an envelope whose except clause raises again
EnvelopeReraises(out, job, outcome) ==
    IF outcome = "raises" THEN out \cup {job} ELSE out

\* the envelope of a job: the body runs inside try, and the except Exception
\* clause logs the error and falls off the end of the function, so nothing
\* is raised to the scheduler
Envelope(out, job, outcome) == out

\* _intraday_pipeline_wrapper or _portfolio_manager_cycle ends: the body has
\* returned or raised, and the envelope returns
WrapperReturns ==
    \E job \in SessionJobs, outcome \in BodyOutcomes :
        /\ instances[job] > 0
        /\ instances' = [instances EXCEPT ![job] = @ - 1]
        /\ caught' = IF outcome = "raises" THEN caught \cup {job} ELSE caught
        /\ escaped' = Envelope(escaped, job, outcome)
        /\ UNCHANGED <<slot, fired>>

\* Ten minutes pass, the ticks of this slot having been processed
SlotPasses ==
    /\ slot < LastSlot
    /\ \A job \in SessionJobs : Due(job, slot) => job \in fired
    /\ slot' = slot + 1
    /\ fired' = {}
    /\ UNCHANGED <<instances, caught, escaped>>

ScNext ==
    \/ TickStart /\ UNCHANGED scOthers
    \/ TickSkip /\ UNCHANGED scOthers
    \/ WrapperReturns /\ UNCHANGED scOthers
    \/ SlotPasses /\ UNCHANGED scOthers

\* C9 as claimed: at most one pipeline invocation is in flight at any time.
SinglePipelineInFlight == InFlight <= 1

\* C32: no exception raised in a job body leaves the job's envelope: the
\* scheduler has seen no job raise, whatever the bodies did.
EnvelopeContainsFaults ==
    escaped = {}

\* C32 witness: the body of a job has raised, the envelope returned, and a
\* later tick of that job has fired while another job, whose body raised
\* too, is idle.
EnvelopeContainsFaultsWitness ==
    \E j1, j2 \in SessionJobs :
        /\ j1 # j2
        /\ {j1, j2} \subseteq caught
        /\ instances[j1] = 1
        /\ instances[j2] = 0
        /\ slot > 0

--------------------------------------------------------------------------
(* WebSocket subscription manager: fetchers/websocket_manager.py *)

MAX_SLOTS == 40

\* update_daily_picks subscribes picks[:20]
DAILY_PICKS_LIMIT == 20

\* A slot is [code, priority, at]: at orders the slots by subscribed_at
SlotCodes(sl) == {sl[i].code : i \in 1..Len(sl)}

PriorityCodes(sl, priority) ==
    {sl[i].code : i \in {j \in 1..Len(sl) : sl[j].priority = priority}}

\* datetime.now() at an insertion: later than every slot's subscribed_at
NextAt(sl) ==
    IF sl = << >> THEN 1
    ELSE 1 + (CHOOSE m \in {sl[i].at : i \in 1..Len(sl)} :
                 \A i \in 1..Len(sl) : sl[i].at <= m)

\* del self.slots[code]
DelSlot(sl, code) == SelectSeq(sl, LAMBDA r : r.code # code)

\* self.slots[code] = WebSocketSlot(...): a new key goes last, an existing
\* key keeps its place
PutSlot(sl, code, priority) ==
    LET new == [code |-> code, priority |-> priority, at |-> NextAt(sl)]
    IN  IF code \in SlotCodes(sl)
        THEN [i \in 1..Len(sl) |-> IF sl[i].code = code THEN new ELSE sl[i]]
        ELSE Append(sl, new)

\* min(..., key=subscribed_at) over the slots of one priority
Oldest(sl, priority) ==
    LET I == {i \in 1..Len(sl) : sl[i].priority = priority}
        i == CHOOSE k \in I : \A j \in I : sl[k].at <= sl[j].at
    IN  sl[i].code

\* evict_lowest_priority's choice: the slot it unsubscribes, if any
EvictVictims(sl, required_priority) ==
    IF PriorityCodes(sl, 3) # {} THEN {Oldest(sl, 3)}
    ELSE IF required_priority <= 2 /\ PriorityCodes(sl, 2) # {}
    THEN {Oldest(sl, 2)}
    ELSE {}

SubItem(code, priority) == [act |-> "sub", code |-> code, priority |-> priority]
UnsubItem(code) == [act |-> "unsub", code |-> code, priority |-> 0]

\* A call runs from where it is to its next await.  subscribe returns at once
\* when the code is present, or when the table is full and nothing can be
\* evicted; unsubscribe returns at once when the code is absent.  Otherwise
\* the call suspends in a frame send.
RECURSIVE RunToAwait(_, _)
RunToAwait(sl, todo) ==
    IF todo = << >> THEN [pc |-> "done", todo |-> << >>, victim |-> {}]
    ELSE LET it == Head(todo)
         IN  IF it.act = "sub"
             THEN IF it.code \in SlotCodes(sl)
                  THEN RunToAwait(sl, Tail(todo))
                  ELSE IF Len(sl) >= MAX_SLOTS
                  THEN LET v == EvictVictims(sl, it.priority)
                       IN  IF v = {} THEN RunToAwait(sl, Tail(todo))
                           ELSE [pc |-> "evictSend", todo |-> todo, victim |-> v]
                  ELSE [pc |-> "subSend", todo |-> todo, victim |-> {}]
             ELSE IF it.code \notin SlotCodes(sl)
                  THEN RunToAwait(sl, Tail(todo))
                  ELSE [pc |-> "unsubSend", todo |-> todo, victim |-> {}]

IdleTask == [pc |-> "idle", kind |-> "none", todo |-> << >>, victim |-> {}, P |-> {}]

NoSync == [done |-> FALSE, P |-> {}, p1 |-> {}]

\* lastCall when the latest call is neither a subscribe nor a reconnect
NoCall ==
    [task |-> 0, kind |-> "none", done |-> FALSE, code |-> 0, priority |-> 0,
     ret |-> FALSE, before |-> << >>]

\* the symbols of a table with their priorities
SlotView(sl) == {<<sl[i].code, sl[i].priority>> : i \in 1..Len(sl)}

\* the orders in which a set can be iterated
Perms(S) ==
    {q \in [1..Cardinality(S) -> S] : \A i, j \in 1..Cardinality(S) : q[i] = q[j] => i = j}

\* ---- inputs ----
SubscribeCodes == {1, MAX_SLOTS + 1}
UnsubscribeCodes == {MAX_SLOTS, MAX_SLOTS + 1}
Portfolios == {{1, 2, 3}, {1, 2, 4}, {1, 2, MAX_SLOTS + 1}, {1, 2}}
PickLists == {<<4, MAX_SLOTS + 1>>}

\* A table of n1 priority-1, n2 priority-2 and n3 priority-3 slots
Table(n1, n2, n3) ==
    [i \in 1..(n1 + n2 + n3) |->
        [code |-> i,
         priority |-> IF i <= n1 THEN 1 ELSE IF i <= n1 + n2 THEN 2 ELSE 3,
         at |-> i]]

InitTables ==
    {Table(3, 2, 35), Table(3, 37, 0), Table(3, 2, 34), Table(3, 2, 1)}

WsIdle ==
    /\ slots = << >>
    /\ wsTasks = [i \in 1..MaxTasks |-> IdleTask]
    /\ wsOps = 0
    /\ wsFails = 0
    /\ syncResult = NoSync
    /\ lastCall = NoCall

WsInit ==
    /\ slots \in InitTables
    /\ wsTasks = [i \in 1..MaxTasks |-> IdleTask]
    /\ wsOps = 0
    /\ wsFails = 0
    /\ syncResult = NoSync
    /\ lastCall = NoCall

\* A call by task i goes on, from table sl and work list rest, to its next
\* await or to its return
Continue(i, kind, P, sl, rest) ==
    LET r == RunToAwait(sl, rest)
    IN  /\ slots' = sl
        /\ IF r.pc = "done"
           THEN /\ wsTasks' = [wsTasks EXCEPT ![i] = IdleTask]
                /\ syncResult' =
                     IF kind = "sync"
                     THEN [done |-> TRUE, P |-> P, p1 |-> PriorityCodes(sl, 1)]
                     ELSE syncResult
           ELSE /\ wsTasks' = [wsTasks EXCEPT ![i] =
                     [pc |-> r.pc, kind |-> kind, todo |-> r.todo,
                      victim |-> r.victim, P |-> P]]
                /\ UNCHANGED syncResult

\* resubscribe_all on a connection that was not replaced runs as kind "stale"
BulkKinds == {"picks", "reconnect", "stale"}

\* A call is made on a free task
FreeTask(i) ==
    /\ wsTasks[i].pc = "idle"
    /\ \A j \in 1..(i - 1) : wsTasks[j].pc # "idle"
    /\ wsOps + wsFails < MaxOps
    /\ wsOps' = wsOps + 1
    /\ \A j \in 1..MaxTasks :
          wsTasks[j].kind \in BulkKinds =>
              Len(slots) + Len(wsTasks[j].todo) <= InterleaveLimit

\* A bulk call is made on a free task
FreeBulkTask(i) ==
    /\ FreeTask(i)
    /\ Cardinality({j \in 1..MaxTasks : wsTasks[j].kind \in BulkKinds})
          < MaxBulkCalls
    /\ (\E j \in 1..MaxTasks : wsTasks[j].pc # "idle") =>
          Len(slots) <= InterleaveLimit

\* subscribe(stock_code, stock_name, priority)
CallSubscribe ==
    \E i \in 1..MaxTasks, code \in SubscribeCodes, priority \in 1..3 :
        /\ FreeTask(i)
        /\ Continue(i, "subscribe", {}, slots, <<SubItem(code, priority)>>)
        /\ lastCall' =
              [task |-> i, kind |-> "subscribe",
               done |-> RunToAwait(slots, <<SubItem(code, priority)>>).pc = "done",
               code |-> code, priority |-> priority,
               ret |-> code \in SlotCodes(slots), before |-> slots]
        /\ UNCHANGED wsFails

\* unsubscribe(stock_code)
CallUnsubscribe ==
    \E i \in 1..MaxTasks, code \in UnsubscribeCodes :
        /\ FreeTask(i)
        /\ Continue(i, "unsubscribe", {}, slots, <<UnsubItem(code)>>)
        /\ lastCall' = NoCall
        /\ UNCHANGED wsFails

\* sync_with_portfolio: to_add and to_remove are computed on entry, then the
\* subscribes run, then the unsubscribes
CallSyncWithPortfolio ==
    \E i \in 1..MaxTasks, P \in Portfolios :
        LET current_priority1 == PriorityCodes(slots, 1)
            to_add == P \ current_priority1
            to_remove == current_priority1 \ P
        IN  \E qa \in Perms(to_add), qr \in Perms(to_remove) :
              /\ FreeTask(i)
              /\ Continue(i, "sync", P, slots,
                          [k \in 1..Len(qa) |-> SubItem(qa[k], 1)]
                          \o [k \in 1..Len(qr) |-> UnsubItem(qr[k])])
              /\ lastCall' = NoCall
              /\ UNCHANGED wsFails

\* update_daily_picks(picks): unsubscribe each priority-2 slot, then subscribe
\* picks[:20] at priority 2
CallUpdateDailyPicks ==
    \E i \in 1..MaxTasks, picks_arg \in PickLists :
        LET priority_2_slots ==
                SelectSeq(slots, LAMBDA r : r.priority = 2)
            head == SubSeq(picks_arg, 1, Min(Len(picks_arg), DAILY_PICKS_LIMIT))
        IN  /\ FreeBulkTask(i)
            /\ Continue(i, "picks", {}, slots,
                        [k \in 1..Len(priority_2_slots) |->
                            UnsubItem(priority_2_slots[k].code)]
                        \o [k \in 1..Len(head) |-> SubItem(head[k], 2)])
            /\ lastCall' = NoCall
            /\ UNCHANGED wsFails

\* reconnect: suspends in kis_client.connect_websocket
CallReconnect ==
    \E i \in 1..MaxTasks :
        /\ FreeBulkTask(i)
        /\ wsTasks' = [wsTasks EXCEPT ![i] =
                          [IdleTask EXCEPT !.pc = "connect", !.kind = "reconnect"]]
        /\ lastCall' = [NoCall EXCEPT !.task = i, !.kind = "reconnect",
                                      !.before = slots]
        /\ UNCHANGED <<slots, wsFails, syncResult>>

\* The frame send a call is suspended in succeeds or raises
SendOutcome(ok) ==
    /\ ok \/ wsOps + wsFails < MaxOps
    /\ wsFails' = IF ok THEN wsFails ELSE wsFails + 1

\* The send of call t: on a connection that was lost and not replaced every
\* send raises
SendBy(t, ok) ==
    IF t.kind = "stale" THEN ~ok /\ UNCHANGED wsFails ELSE SendOutcome(ok)

\* lastCall when the tracked call of task i returns ret
Returned(i, returns, ret) ==
    IF lastCall.task = i /\ ~lastCall.done /\ returns
    THEN [lastCall EXCEPT !.done = TRUE, !.ret = ret]
    ELSE lastCall

\* evict_lowest_priority: the unsubscribe of the victim returns.  Its result
\* is not looked at; evict returns True and subscribe goes on to its own send.
EvictSendDone ==
    \E i \in 1..MaxTasks, ok \in BOOLEAN :
        LET t == wsTasks[i]
            victim == CHOOSE v \in t.victim : TRUE
        IN  /\ t.pc = "evictSend"
            /\ SendBy(t, ok)
            /\ slots' = IF ok THEN DelSlot(slots, victim) ELSE slots
            /\ wsTasks' = [wsTasks EXCEPT ![i] =
                              [t EXCEPT !.pc = "subSend", !.victim = {}]]
            /\ UNCHANGED <<wsOps, syncResult, lastCall>>

\* subscribe: the send returns; on success the slot is recorded
SubSendDone ==
    \E i \in 1..MaxTasks, ok \in BOOLEAN :
        LET t == wsTasks[i]
            it == Head(t.todo)
            sl == IF ok THEN PutSlot(slots, it.code, it.priority) ELSE slots
        IN  /\ t.pc = "subSend"
            /\ SendBy(t, ok)
            /\ Continue(i, t.kind, t.P, sl, Tail(t.todo))
            /\ lastCall' =
                  Returned(i, RunToAwait(sl, Tail(t.todo)).pc = "done", ok)
            /\ UNCHANGED wsOps

\* unsubscribe: the send returns; on success the slot is deleted (a slot that
\* went away in the meantime makes `del` raise KeyError, which is caught)
UnsubSendDone ==
    \E i \in 1..MaxTasks, ok \in BOOLEAN :
        LET t == wsTasks[i]
            it == Head(t.todo)
        IN  /\ t.pc = "unsubSend"
            /\ SendBy(t, ok)
            /\ Continue(i, t.kind, t.P,
                        IF ok THEN DelSlot(slots, it.code) ELSE slots,
                        Tail(t.todo))
            /\ UNCHANGED <<wsOps, lastCall>>

\* reconnect: connect_websocket returns.  It swallows its own failures and
\* leaves kis_client.ws_connection as it was, so after a lost connection the
\* manager holds either the new connection or the lost one; it is None only
\* before the first connection, when the table is empty (the test at lines
\* 405-408).  Either way resubscribe_all copies the slots, clears the table
\* and subscribes each copy again.
ConnectDone ==
    \E i \in 1..MaxTasks, connected \in BOOLEAN :
        LET t == wsTasks[i]
            slots_copy == slots
            kind == IF connected THEN "reconnect" ELSE "stale"
        IN  /\ t.pc = "connect"
            /\ Continue(i, kind, t.P, << >>,
                        [k \in 1..Len(slots_copy) |->
                            SubItem(slots_copy[k].code, slots_copy[k].priority)])
            /\ lastCall' = Returned(i, slots_copy = << >>, TRUE)
            /\ UNCHANGED <<wsOps, wsFails>>

WsNext ==
    \/ CallSubscribe /\ UNCHANGED wsOthers
    \/ CallUnsubscribe /\ UNCHANGED wsOthers
    \/ CallSyncWithPortfolio /\ UNCHANGED wsOthers
    \/ CallUpdateDailyPicks /\ UNCHANGED wsOthers
    \/ CallReconnect /\ UNCHANGED wsOthers
    \/ EvictSendDone /\ UNCHANGED wsOthers
    \/ SubSendDone /\ UNCHANGED wsOthers
    \/ UnsubSendDone /\ UNCHANGED wsOthers
    \/ ConnectDone /\ UNCHANGED wsOthers

\* C3 as claimed: the slot table never holds more than 40 slots.
SlotCap == Len(slots) <= MAX_SLOTS

\* C11 as claimed: a subscribe of a new symbol at priority p on a full table
\* evicts one slot of priority greater than p and adds the new slot when such
\* a slot exists, and otherwise returns failure and leaves the table as it was.
EvictionPreference ==
    LET c == lastCall
        higher == {i \in 1..Len(c.before) : c.before[i].priority > c.priority}
    IN  (/\ c.kind = "subscribe" /\ c.done
         /\ wsOps = 1 /\ wsFails = 0
         /\ Len(c.before) = MAX_SLOTS
         /\ c.code \notin SlotCodes(c.before))
        => IF higher # {}
           THEN /\ c.ret
                /\ Len(slots) = MAX_SLOTS
                /\ \E i \in higher :
                      SlotView(slots) =
                        (SlotView(c.before) \ {<<c.before[i].code, c.before[i].priority>>})
                        \cup {<<c.code, c.priority>>}
           ELSE ~c.ret /\ slots = c.before

\* C12 as claimed: when reconnect has returned, the table holds the symbols
\* and priorities it held when the connection was lost.
ReconnectKeepsTable ==
    (lastCall.kind = "reconnect" /\ lastCall.done /\ wsOps = 1)
    => SlotView(slots) = SlotView(lastCall.before)

\* C10 as claimed: when sync_with_portfolio returns for holdings P, the
\* symbols in priority-1 slots are exactly the symbols of P.
PriorityOneIdentity ==
    (syncResult.done /\ wsOps = 1 /\ wsFails = 0) => syncResult.p1 = syncResult.P

\* C34 as claimed: a subscribe of a new symbol at priority p on a full table
\* with no slot of priority greater than p evicts nothing and fails when p is
\* 3, and when it evicts, p is at most 2 and the slot evicted is the oldest of
\* priority p.
EqualPriorityEviction ==
    LET c == lastCall
        higher == {i \in 1..Len(c.before) : c.before[i].priority > c.priority}
    IN  (/\ c.kind = "subscribe" /\ c.done
         /\ wsOps = 1 /\ wsFails = 0
         /\ Len(c.before) = MAX_SLOTS
         /\ c.code \notin SlotCodes(c.before)
         /\ higher = {})
        => /\ c.priority = 3 => (~c.ret /\ slots = c.before)
           /\ slots # c.before =>
                 /\ c.priority <= 2
                 /\ PriorityCodes(c.before, c.priority) # {}
                 /\ SlotView(slots) =
                       (SlotView(c.before)
                          \ {<<Oldest(c.before, c.priority), c.priority>>})
                       \cup {<<c.code, c.priority>>}

\* C35 as claimed: when a subscribe call has returned failure and no other
\* call ran meanwhile, the slot table is what it was before the call.
FailedSubscribeNoChange ==
    LET c == lastCall
    IN  (c.kind = "subscribe" /\ c.done /\ ~c.ret /\ wsOps = 1)
        => slots = c.before

--------------------------------------------------------------------------
(* Trap detector's weight learning: brain/korean_market_traps.py *)

\* The weights are kept in hundredths: 95 is 0.95
WEIGHT_UPPER == 99
WEIGHT_LOWER == 30
CORRECT_STEP == 1
WRONG_STEP == 2

\* pattern_weights as __init__ sets it
InitialWeights ==
    [fake_rise |-> 95, gap_overheat |-> 90, program_dump |-> 85,
     sell_on_news |-> 80, hollow_rise |-> 75, sell_wall |-> 70,
     sector_decouple |-> 65, fx_shock |-> 60, ma_resistance |-> 55,
     dilution_day |-> 90]

TrapTypes == DOMAIN InitialWeights

\* the trap_type arguments of the calls: two patterns, one name that is not a
\* pattern, and None
TrapTypeArgs == {"fake_rise", "ma_resistance", "pump_and_dump", "None"}

\* the actual_result arguments
ActualResults == {"CORRECT", "WRONG", "PENDING"}

\* a weight update with no bounds
UpdateWeightUnbounded(w, actual_result) ==
    IF actual_result = "CORRECT" THEN w + CORRECT_STEP
    ELSE IF actual_result = "WRONG" THEN w - WRONG_STEP
    ELSE w

\* a weight update that takes the same step either way
UpdateWeightEvenStep(w, actual_result) ==
    IF actual_result = "CORRECT" THEN Min(WEIGHT_UPPER, w + CORRECT_STEP)
    ELSE IF actual_result = "WRONG" THEN Max(WEIGHT_LOWER, w - CORRECT_STEP)
    ELSE w

\* record_feedback's weight update: min(0.99, w + 0.01) on CORRECT,
\* max(0.30, w - 0.02) on WRONG, nothing otherwise
UpdateWeight(w, actual_result) ==
    IF actual_result = "CORRECT" THEN Min(WEIGHT_UPPER, w + CORRECT_STEP)
    ELSE IF actual_result = "WRONG" THEN Max(WEIGHT_LOWER, w - WRONG_STEP)
    ELSE w

\* clip(x, 0.30, 0.99)
Clip(x) == Max(WEIGHT_LOWER, Min(WEIGHT_UPPER, x))

TrInit ==
    /\ pattern_weights = InitialWeights
    /\ trapCorrect = [t \in TrapTypes |-> 0]
    /\ trapWrong = [t \in TrapTypes |-> 0]
    /\ trapCut = [t \in TrapTypes |-> FALSE]

\* record_feedback(stock_code, trap_detected, trap_type, avoided_buy,
\* actual_result, price_change_pct).  The feedback row is committed first: a
\* failed commit raises into the method's except clause and no weight changes.
\* The method has no await in it, so calls do not interleave.
RecordFeedback ==
    \E trap_type \in TrapTypeArgs, actual_result \in ActualResults,
       committed \in BOOLEAN :
        IF committed /\ trap_type \in TrapTypes
        THEN LET w == pattern_weights[trap_type]
                 n == IF actual_result = "CORRECT" THEN 1 ELSE 0
                 m == IF actual_result = "WRONG" THEN 1 ELSE 0
             IN  /\ trapCorrect[trap_type] + trapWrong[trap_type] + n + m
                       <= MaxFeedbacks
                 /\ pattern_weights' =
                       [pattern_weights EXCEPT
                           ![trap_type] = UpdateWeight(w, actual_result)]
                 /\ trapCorrect' = [trapCorrect EXCEPT ![trap_type] = @ + n]
                 /\ trapWrong' = [trapWrong EXCEPT ![trap_type] = @ + m]
                 /\ trapCut' =
                       [trapCut EXCEPT ![trap_type] =
                           @ \/ (n = 1 /\ w + CORRECT_STEP > WEIGHT_UPPER)
                             \/ (m = 1 /\ w - WRONG_STEP < WEIGHT_LOWER)]
        ELSE UNCHANGED trVars

TrNext ==
    \/ RecordFeedback /\ UNCHANGED trOthers

\* C17: every pattern weight is within [0.30, 0.99].
TrapWeightBounds ==
    \A t \in TrapTypes :
        WEIGHT_LOWER <= pattern_weights[t] /\ pattern_weights[t] <= WEIGHT_UPPER

\* C17's case: a CORRECT update was cut at 0.99 and a WRONG update at 0.30
TrapWeightBoundsWitness ==
    /\ trapCut["fake_rise"] /\ pattern_weights["fake_rise"] = WEIGHT_UPPER
    /\ trapCut["ma_resistance"] /\ pattern_weights["ma_resistance"] = WEIGHT_LOWER

\* C18 as claimed: after n CORRECT and m WRONG updates of a pattern in any
\* order, its weight is clip(w0 + 0.01 n - 0.02 m, 0.30, 0.99).
TrapWeightClosedForm ==
    \A t \in TrapTypes :
        pattern_weights[t] =
            Clip(InitialWeights[t] + CORRECT_STEP * trapCorrect[t]
                 - WRONG_STEP * trapWrong[t])

\* C18 as amended: the closed form holds for a pattern as long as none of its
\* updates was cut at a bound.
TrapWeightClosedFormUncut ==
    \A t \in TrapTypes :
        ~trapCut[t] =>
            pattern_weights[t] =
                Clip(InitialWeights[t] + CORRECT_STEP * trapCorrect[t]
                     - WRONG_STEP * trapWrong[t])

\* C18's case: CORRECT and WRONG updates were applied to a pattern and none
\* was cut
TrapWeightClosedFormWitness ==
    /\ ~trapCut["ma_resistance"]
    /\ trapCorrect["ma_resistance"] >= 2
    /\ trapWrong["ma_resistance"] >= 2
    /\ pattern_weights["ma_resistance"] = InitialWeights["ma_resistance"] - 2

--------------------------------------------------------------------------
(* Event bus: events/event_bus.py *)

\* EventBus.max_history
MAX_HISTORY == 100

\* the event types and callbacks the calls are drawn from
EventTypes == {"EXECUTION_NOTICE", "BREAKING_NEWS"}
Callbacks == {"on_execution_notice", "on_breaking_news"}

NoPublish == [pc |-> "idle", type |-> "none", tasks |-> << >>]

EbInit ==
    /\ subscribers = [t \in {} |-> << >>]
    /\ event_history = << >>
    /\ publishCall = NoPublish
    /\ busOps = 0

\* subscribe(event_type, callback): appends to the type's list
BusSubscribe ==
    \E event_type \in EventTypes, callback \in Callbacks :
        /\ busOps < MaxBusOps
        /\ busOps' = busOps + 1
        /\ subscribers' =
              DictSet(subscribers, event_type,
                      IF event_type \in DOMAIN subscribers
                      THEN Append(subscribers[event_type], callback)
                      ELSE <<callback>>)
        /\ UNCHANGED <<event_history, publishCall>>

\* what a task of _safe_callback ends as when the callback returns or raises
\* with no guard around it
UnguardedCallback(outcome) ==
    IF outcome = "raise" THEN "propagated" ELSE "finished"

\* _safe_callback: `except Exception` logs and returns
SafeCallback(outcome) == "finished"

\* publish(event) up to its await: the event is recorded, then one
\* _safe_callback coroutine is made for each callback of the type and all are
\* handed to asyncio.gather.  With no subscriber list publish returns at once.
PublishStart ==
    \E event_type \in EventTypes :
        LET appended == Append(event_history, event_type)
        IN  /\ publishCall.pc # "gather"
            /\ \A i \in 1..Len(publishCall.tasks) :
                  publishCall.tasks[i].st \in {"finished", "propagated"}
            /\ busOps < MaxBusOps
            /\ busOps' = busOps + 1
            /\ event_history' =
                  IF Len(appended) > MAX_HISTORY THEN Tail(appended) ELSE appended
            /\ publishCall' =
                  IF event_type \notin DOMAIN subscribers
                  THEN [pc |-> "returned", type |-> event_type, tasks |-> << >>]
                  ELSE [pc |-> "gather", type |-> event_type,
                        tasks |-> [i \in 1..Len(subscribers[event_type]) |->
                                     [callback |-> subscribers[event_type][i],
                                      st |-> "pending", raised |-> FALSE]]]
            /\ UNCHANGED subscribers

\* A task of gather is started, in the order of the list, and runs the
\* callback to its first await
TaskStarts ==
    \E i \in 1..Len(publishCall.tasks) :
        /\ publishCall.tasks[i].st = "pending"
        /\ \A j \in 1..(i - 1) : publishCall.tasks[j].st # "pending"
        /\ publishCall' = [publishCall EXCEPT !.tasks[i].st = "running"]
        /\ UNCHANGED <<subscribers, event_history, busOps>>

\* A callback returns or raises an Exception
TaskEnds ==
    \E i \in 1..Len(publishCall.tasks), outcome \in {"return", "raise"} :
        /\ publishCall.tasks[i].st = "running"
        /\ publishCall' =
              [publishCall EXCEPT !.tasks[i].st = SafeCallback(outcome),
                                  !.tasks[i].raised = (outcome = "raise")]
        /\ UNCHANGED <<subscribers, event_history, busOps>>

\* asyncio.gather(*tasks) wakes publish: with the first exception that comes
\* out of a task, or when every task has finished
GatherWakes ==
    LET tasks == publishCall.tasks
        propagated == \E i \in 1..Len(tasks) : tasks[i].st = "propagated"
        finished == \A i \in 1..Len(tasks) : tasks[i].st = "finished"
    IN  /\ publishCall.pc = "gather"
        /\ propagated \/ finished
        /\ publishCall' =
              [publishCall EXCEPT !.pc = IF propagated THEN "raised" ELSE "returned"]
        /\ UNCHANGED <<subscribers, event_history, busOps>>

EbNext ==
    \/ BusSubscribe /\ UNCHANGED ebOthers
    \/ PublishStart /\ UNCHANGED ebOthers
    \/ TaskStarts /\ UNCHANGED ebOthers
    \/ TaskEnds /\ UNCHANGED ebOthers
    \/ GatherWakes /\ UNCHANGED ebOthers

\* C19: publish never raises to the publisher, and it returns only when every
\* callback of the event has returned or raised, whatever the others did.
HandlerIsolation ==
    /\ publishCall.pc # "raised"
    /\ publishCall.pc = "returned" =>
          \A i \in 1..Len(publishCall.tasks) : publishCall.tasks[i].st = "finished"

\* C19's case: publish has returned from an event one of whose callbacks
\* raised and another returned
HandlerIsolationWitness ==
    /\ publishCall.pc = "returned"
    /\ \E i, j \in 1..Len(publishCall.tasks) :
          /\ publishCall.tasks[i].raised
          /\ ~publishCall.tasks[j].raised
          /\ publishCall.tasks[j].st = "finished"

\* C20 as claimed: a publish invokes each registered callback once, however
\* many times it was registered.
RegistrationIdempotent ==
    \A i, j \in 1..Len(publishCall.tasks) :
        publishCall.tasks[i].callback = publishCall.tasks[j].callback => i = j

--------------------------------------------------------------------------
(* Order store: execution notices, execution sync, cancellation *)

\* order numbers of the stored orders, one the store does not hold, and
\* "None": what data.get('ODNO') gives for a message that carries its fields
\* under 'body'
StoredOrderNos == {"O1", "O2"}
OrderNoArgs == StoredOrderNos \cup {"O9", "None"}

\* CNTG_QTY values of a notice
ExecQtys == {1, 2}

\* PDNO and SELN_BYOV_CLS of the notices the broker sends for an order number
NoticeStock(order_no) == IF order_no = "O2" THEN "B" ELSE "A"
NoticeType(order_no) == IF order_no = "O2" THEN "SELL" ELSE "BUY"

\* rows of trade_orders as place_buy_order and place_sell_order create them,
\* and the position the sell order is for
OrInit ==
    /\ db = [ trade_orders |->
                [o \in StoredOrderNos |->
                    [ stock_code |-> NoticeStock(o),
                      order_type |-> NoticeType(o),
                      order_qty |-> 2,
                      filled_qty |-> 0,
                      status |-> "PENDING",
                      notices |-> {} ]],
              trade_executions |-> {},
              portfolio |-> [c \in {"B"} |-> 2],
              portfolio_log |-> {} ]
    /\ notices = << >>

\* step 1 of on_execution_notice: filled quantity and status of the order
UpdateOrder(st, data, id) ==
    LET o == data.ODNO IN
    IF o \notin DOMAIN st.trade_orders THEN st
    ELSE
        LET order == st.trade_orders[o]
            filled == order.filled_qty + data.CNTG_QTY
        IN  [st EXCEPT !.trade_orders[o] =
                [order EXCEPT
                    !.filled_qty = filled,
                    !.status = IF filled >= order.order_qty
                               THEN "FILLED" ELSE "PARTIALLY_FILLED",
                    !.notices = @ \cup {id}]]

\* step 2: the trade_executions row
AddExecution(st, data, id) ==
    [st EXCEPT !.trade_executions = @ \cup
        {[ order_no |-> data.ODNO, stock_code |-> data.PDNO,
           exec_qty |-> data.CNTG_QTY, notice |-> id ]}]

UpdatePortfolioOnBuy(pf, stock_code, quantity) ==
    IF stock_code \in DOMAIN pf
    THEN [pf EXCEPT ![stock_code] = @ + quantity]
    ELSE [c \in DOMAIN pf \cup {stock_code} |->
            IF c = stock_code THEN quantity ELSE pf[c]]

UpdatePortfolioOnSell(pf, stock_code, quantity) ==
    IF stock_code \in DOMAIN pf
    THEN IF pf[stock_code] - quantity <= 0
         THEN [c \in DOMAIN pf \ {stock_code} |-> pf[c]]
         ELSE [pf EXCEPT ![stock_code] = @ - quantity]
    ELSE pf

\* step 3: the position
UpdatePortfolio(st, data, id) ==
    [st EXCEPT
        !.portfolio = IF data.order_type = "BUY"
                      THEN UpdatePortfolioOnBuy(@, data.PDNO, data.CNTG_QTY)
                      ELSE UpdatePortfolioOnSell(@, data.PDNO, data.CNTG_QTY),
        !.portfolio_log = @ \cup {id}]

\* the session after the first `writes` of the three steps
NoticeWrites(st, data, id, writes) ==
    LET s1 == IF writes >= 1 THEN UpdateOrder(st, data, id) ELSE st
        s2 == IF writes >= 2 THEN AddExecution(s1, data, id) ELSE s1
    IN  IF writes >= 3 THEN UpdatePortfolio(s2, data, id) ELSE s2

\* a rollback that leaves the session's writes in the tables
RollbackKeepsWrites(committed, session) == session

\* db.rollback(): the tables are as they were when the session began
Rollback(committed, session) == committed

\* on_execution_notice without the `if not order: return`
ExecutionNoticeUnguarded(st, data, id, writes, ok) ==
    IF ok THEN NoticeWrites(st, data, id, 3)
    ELSE Rollback(st, NoticeWrites(st, data, id, writes))

\* on_execution_notice: the tables after the call.  The call makes `writes`
\* of its three writes in one session and then commits (ok) or raises
ExecutionNoticeResult(st, data, id, writes, ok) ==
    IF data.ODNO \notin DOMAIN st.trade_orders THEN st
    ELSE IF ok THEN NoticeWrites(st, data, id, 3)
    ELSE Rollback(st, NoticeWrites(st, data, id, writes))

OnExecutionNotice ==
    /\ Len(notices) < MaxNotices
    /\ \E order_no \in OrderNoArgs, qty \in ExecQtys,
          writes \in 0..3, ok \in BOOLEAN :
          LET data == [ ODNO |-> order_no, PDNO |-> NoticeStock(order_no),
                        CNTG_QTY |-> qty,
                        order_type |-> NoticeType(order_no) ]
              id == Len(notices) + 1
          IN  /\ ok => writes = 3
              /\ db' = ExecutionNoticeResult(db, data, id, writes, ok)
              /\ notices' = Append(notices,
                    [ ODNO |-> order_no, writes |-> writes, ok |-> ok,
                      stored |-> order_no \in DOMAIN db.trade_orders ])

\* sync_execution: a pending buy order whose stock the balance holds is filled
SyncExecution ==
    \E balance_stocks \in SUBSET Codes :
        /\ db' = [db EXCEPT !.trade_orders =
                [o \in DOMAIN @ |->
                    IF /\ @[o].status \in {"PENDING", "PARTIALLY_FILLED"}
                       /\ @[o].order_type = "BUY"
                       /\ @[o].stock_code \in balance_stocks
                    THEN [@[o] EXCEPT !.status = "FILLED"]
                    ELSE @[o]]]
        /\ UNCHANGED notices

\* cancel_order: raises for an unknown, filled or cancelled order
CancelOrder ==
    \E order_no \in OrderNoArgs :
        /\ db' = IF /\ order_no \in DOMAIN db.trade_orders
                    /\ db.trade_orders[order_no].status \notin {"FILLED", "CANCELLED"}
                 THEN [db EXCEPT !.trade_orders[order_no].status = "CANCELLED"]
                 ELSE db
        /\ UNCHANGED notices

OrNext ==
    \/ OnExecutionNotice /\ UNCHANGED orOthers
    \/ SyncExecution /\ UNCHANGED orOthers
    \/ CancelOrder /\ UNCHANGED orOthers

\* C21 as claimed: every change of an order's status is a forward step along
\* pending, partially filled, filled, or a move to cancelled or rejected; a
\* filled, cancelled or rejected order never becomes pending, partially
\* filled or filled.
StatusMovesForward ==
    [][\A o \in StoredOrderNos :
        LET old == db.trade_orders[o].status
            new == db'.trade_orders[o].status
        IN  old # new =>
              \/ old = "PENDING"
              \/ old = "PARTIALLY_FILLED" /\ new # "PENDING"]_orVars

\* ids of the notices applied to each of the three tables
OrderNotices == UNION {db.trade_orders[o].notices : o \in DOMAIN db.trade_orders}
ExecutionNotices == {e.notice : e \in db.trade_executions}
PositionNotices == db.portfolio_log

\* C22: the order update, the execution row and the position update of a
\* notice are all in the tables or none of them is.
NoticeAtomic ==
    /\ OrderNotices = ExecutionNotices
    /\ ExecutionNotices = PositionNotices

\* C22's case: a notice for a stored order raised after some of its writes,
\* and another was committed
NoticeAtomicWitness ==
    /\ \E i \in 1..Len(notices) :
          notices[i].stored /\ ~notices[i].ok /\ notices[i].writes \in 1..2
    /\ \E i \in 1..Len(notices) :
          notices[i].stored /\ notices[i].ok /\ i \in OrderNotices

\* C23: a notice whose order number matches no stored order leaves the
\* tables as they were.
UnknownOrderNoEffect ==
    [][(/\ Len(notices') = Len(notices) + 1
        /\ notices'[Len(notices')].ODNO \notin StoredOrderNos)
       => db' = db]_orVars

\* C23's case: a notice with an unknown order number was processed to the
\* commit, after a notice for a stored order
UnknownOrderNoEffectWitness ==
    \E i, j \in 1..Len(notices) :
        /\ i < j
        /\ notices[i].stored /\ notices[i].ok
        /\ ~notices[j].stored /\ notices[j].ok

\* C38 as claimed: whatever execution notices arrive, an order's filled
\* quantity is at most its requested quantity.
FilledWithinRequested ==
    \A o \in DOMAIN db.trade_orders :
        db.trade_orders[o].filled_qty <= db.trade_orders[o].order_qty

--------------------------------------------------------------------------
(* Portfolio manager: the sell rules of one held position *)

\* thresholds of PortfolioManager.__init__, in tenths of a percent
STOP_LOSS_PCT == -30
PARTIAL_SELL_1_PCT == 35
TRAILING_START_PCT == 50
PARTIAL_SELL_2_PCT == 55
TRAILING_GAP_PCT == 20
TAKE_PROFIT_PCT == 80
STRONG_TRAILING_GAP_PCT == 15

\* average cost of the position and the prices the balance sync reports
AvgPrice == 1000
CurrentPrices == {960, 970, 1000, 1034, 1035, 1040, 1054, 1055, 1060, 1090}

\* profit_rate as the balance sync stores it, in tenths of a percent
ProfitRate(current_price, avg_price) ==
    ((current_price - avg_price) * 1000) \div avg_price

NoDecision == [reason_type |-> "none", sell_ratio |-> 0, mark_partial_sold |-> FALSE]

PmInit ==
    /\ holding = [ quantity |-> 10, avg_price |-> AvgPrice,
                   current_price |-> AvgPrice, profit_rate |-> 0,
                   max_price_reached |-> 0, sell_stage |-> 0 ]
    /\ judged = [ cycles |-> 0, item |-> holding, highest_price |-> AvgPrice,
                  taken_before |-> FALSE, taken_after |-> FALSE,
                  decision |-> NoDecision ]

\* hasattr(item, 'partial_sold_1').  A row the session loads has the columns
\* of the portfolio table, and partial_sold_1 is not one of them
HasPartialSold1(item) == "partial_sold_1" \in DOMAIN item

\* (x / y * 100 >= pct) for pct in tenths of a percent
PctAtLeast(x, y, pct) == x * 1000 >= pct * y

\* _judge_stock: the sell decision for one loaded row
JudgeStock(item) ==
    LET current_price == item.current_price
        profit_rate == item.profit_rate
        highest_price == IF item.max_price_reached # 0
                         THEN item.max_price_reached ELSE item.avg_price
        max_reached == PctAtLeast(highest_price - item.avg_price,
                                  item.avg_price, TRAILING_START_PCT)
        strong == PctAtLeast(highest_price - item.avg_price,
                             item.avg_price, TAKE_PROFIT_PCT)
    IN  IF profit_rate <= STOP_LOSS_PCT
        THEN [reason_type |-> "stop_loss", sell_ratio |-> 10,
              mark_partial_sold |-> FALSE]
        ELSE IF /\ profit_rate >= PARTIAL_SELL_1_PCT
                /\ profit_rate < PARTIAL_SELL_2_PCT
                /\ (~HasPartialSold1(item) \/ ~item.partial_sold_1)
        THEN [reason_type |-> "partial_sell_1", sell_ratio |-> 5,
              mark_partial_sold |-> TRUE]
        ELSE IF /\ max_reached /\ strong
                /\ PctAtLeast(highest_price - current_price, highest_price,
                              STRONG_TRAILING_GAP_PCT)
        THEN [reason_type |-> "strong_trailing", sell_ratio |-> 10,
              mark_partial_sold |-> FALSE]
        ELSE IF /\ max_reached /\ ~strong
                /\ PctAtLeast(highest_price - current_price, highest_price,
                              TRAILING_GAP_PCT)
        THEN [reason_type |-> "trailing_stop", sell_ratio |-> 10,
              mark_partial_sold |-> FALSE]
        ELSE IF profit_rate >= PARTIAL_SELL_2_PCT
        THEN [reason_type |-> "partial_sell_2", sell_ratio |-> 10,
              mark_partial_sold |-> FALSE]
        ELSE NoDecision

\* one run_cycle over the position: the balance sync stores the price and
\* the return, the row is loaded and judged, the sell is "executed" (the
\* order call is a TODO: the quantity stays and partial_sold_1 is set on
\* the loaded object only) and the new high is committed
RunCycle ==
    /\ judged.cycles < MaxCycles
    /\ \E current_price \in CurrentPrices :
          LET item == [holding EXCEPT
                         !.current_price = current_price,
                         !.profit_rate = ProfitRate(current_price, holding.avg_price)]
              highest_price == IF item.max_price_reached # 0
                               THEN item.max_price_reached ELSE item.avg_price
              new_high == IF current_price > highest_price
                          THEN current_price ELSE highest_price
              decision == JudgeStock(item)
          IN  /\ holding' = [item EXCEPT !.max_price_reached =
                                IF current_price > highest_price
                                THEN current_price ELSE @]
              /\ judged' = [ cycles |-> judged.cycles + 1,
                             item |-> item,
                             highest_price |-> new_high,
                             taken_before |-> judged.taken_after,
                             taken_after |-> \/ judged.taken_after
                                             \/ decision.mark_partial_sold,
                             decision |-> decision ]

PmNext ==
    \/ RunCycle /\ UNCHANGED pmOthers

\* the action of the first rule of the documented order whose condition
\* holds, for the position judged last: its return, whether its stage 1
\* was taken in an earlier cycle, and its high updated before evaluation
FirstRule ==
    LET r == judged.item.profit_rate
        avg == judged.item.avg_price
        high == judged.highest_price
        cur == judged.item.current_price
    IN  IF r <= STOP_LOSS_PCT THEN "stop_loss"
        ELSE IF r >= PARTIAL_SELL_1_PCT /\ ~judged.taken_before
        THEN "partial_sell_1"
        ELSE IF /\ PctAtLeast(high - avg, avg, TAKE_PROFIT_PCT)
                /\ PctAtLeast(high - cur, high, STRONG_TRAILING_GAP_PCT)
        THEN "strong_trailing"
        ELSE IF /\ PctAtLeast(high - avg, avg, TRAILING_START_PCT)
                /\ ~PctAtLeast(high - avg, avg, TAKE_PROFIT_PCT)
                /\ PctAtLeast(high - cur, high, TRAILING_GAP_PCT)
        THEN "trailing_stop"
        ELSE IF r >= PARTIAL_SELL_2_PCT THEN "partial_sell_2"
        ELSE "none"

\* C24 as claimed: the action for a held position is that of the first rule
\* whose condition holds, in the order stop-loss, half partial-sell (return
\* >= +3.5%, stage 1 not taken), trailing stop, full take-profit; so any
\* return >= +3.5% with stage 1 not taken gets the half partial-sell.
FirstRuleDecides ==
    judged.cycles > 0 =>
        /\ judged.decision.reason_type = FirstRule
        /\ (judged.item.profit_rate >= PARTIAL_SELL_1_PCT /\ ~judged.taken_before)
              => judged.decision.sell_ratio = 5

\* C36 as claimed: once the stage-1 half partial-sell has been taken for a
\* position, no later cycle decides another stage-1 partial-sell for it
\* while it is held.
StageOnePersists ==
    (judged.taken_before /\ holding.quantity > 0)
        => judged.decision.reason_type # "partial_sell_1"

--------------------------------------------------------------------------
(* Brain: the analyzer's final score and the Commander's decision *)

\* the quant and AI scores, integers of 0..100
ScoreRange == 0..100

\* what _commander_decide and other callers can pass as market_status
MarketStatuses == {"NORMAL", "RISK_ON", "IRON_SHIELD"}

\* the weights of the final score, in hundredths
QUANT_WEIGHT == 57
AI_WEIGHT == 43

\* score pairs whose weighted sum is a whole number that the double sum
\* quant*0.57 + ai*0.43 falls just short of (0.57 and 0.43 are both stored
\* a little below their decimal values): 57*0.57 + 57*0.43 and 100*0.57
\* are 56.99999999999999 in double arithmetic
DoubleShortfall == {<<57, 57>>, <<100, 0>>}

\* a final score rounded to the nearest whole number
CalculateFinalScoreRounded(quant_score, ai_score) ==
    (quant_score * QUANT_WEIGHT + ai_score * AI_WEIGHT + 50) \div 100

\* _calculate_final_score: int() of the double sum, which cuts the fraction
CalculateFinalScore(quant_score, ai_score) ==
    LET exact == (quant_score * QUANT_WEIGHT + ai_score * AI_WEIGHT) \div 100
    IN  IF <<quant_score, ai_score>> \in DoubleShortfall
        THEN exact - 1 ELSE exact

NoAnalysis == [made |-> FALSE, quant_score |-> 0, ai_score |-> 0, final_score |-> 0]
NoDecide == [made |-> FALSE, market_status |-> "NORMAL", llm_called |-> FALSE,
             decision |-> "HOLD"]

\* the scores handed to the analyzer's combine step
BrInit ==
    /\ \E quant_score \in ScoreRange, ai_score \in ScoreRange :
          analysis = [NoAnalysis EXCEPT !.quant_score = quant_score,
                                        !.ai_score = ai_score]
    /\ commanderCall = NoDecide

BrIdle ==
    /\ analysis = NoAnalysis
    /\ commanderCall = NoDecide

\* analyze_candidate: the scores are combined into the final score
Analyze ==
    /\ ~analysis.made
    /\ analysis' = [analysis EXCEPT
                       !.made = TRUE,
                       !.final_score = CalculateFinalScore(analysis.quant_score,
                                                           analysis.ai_score)]
    /\ UNCHANGED commanderCall

\* BrainCommander.decide on the analysis: the prompt goes to the LLM and the
\* parsed answer is returned
DecideOnAnalysis ==
    /\ analysis.made
    /\ ~commanderCall.made
    /\ \E market_status \in MarketStatuses, llm \in LLMAnswers :
          commanderCall' = [ made |-> TRUE, market_status |-> market_status,
                             llm_called |-> TRUE, decision |-> Decide(llm) ]
    /\ UNCHANGED analysis

BrNext ==
    \/ Analyze /\ UNCHANGED brOthers
    \/ DecideOnAnalysis /\ UNCHANGED brOthers

Abs(x) == IF x < 0 THEN -x ELSE x

\* C25 as claimed: a final score above 80 in the iron-shield regime is
\* vetoed, and AI and quant scores more than 30 apart give HOLD, both
\* decided in code without a call to the LLM.
CommanderAutoRejects ==
    commanderCall.made =>
        /\ (analysis.final_score > 80 /\ commanderCall.market_status = "IRON_SHIELD")
              => (commanderCall.decision # "BUY" /\ ~commanderCall.llm_called)
        /\ Abs(analysis.ai_score - analysis.quant_score) > 30
              => (commanderCall.decision = "HOLD" /\ ~commanderCall.llm_called)

--------------------------------------------------------------------------
(* KIS client: the access-token cache and the order requests *)

\* seconds a new token lives (expires_in), in ticks of the model's clock
TokenLife == 2

\* the token a cache file left by an earlier run holds; new tokens are
\* numbered above it.  0 stands for None
OldToken == 100

\* the cache file as the client finds it: absent, unreadable, or the two
\* fields _save_token_to_cache writes
NoFile == [state |-> "none", access_token |-> 0, expires_at |-> 0]
CorruptFile == [state |-> "corrupt", access_token |-> 0, expires_at |-> 0]

CacheFiles ==
    {NoFile, CorruptFile} \cup
    [state : {"ok"}, access_token : {OldToken}, expires_at : {1, 3}]

NoOrder ==
    [ sent |-> FALSE, side |-> "buy", market |-> "KRX", price_arg |-> 0,
      lookup |-> [raises |-> FALSE, best |-> 0, stck_prpr |-> 0],
      ORD_DVSN |-> "00", ORD_UNPR |-> 0 ]

KcInit ==
    /\ kisNow = 1
    /\ kis \in [ token_cache_file : CacheFiles, access_token : {0},
                 token_expires_at : {0}, issued : {0} ]
    /\ tokenCalls = << >>
    /\ lastOrder = NoOrder

KcIdle ==
    /\ kisNow = 1
    /\ kis = [ token_cache_file |-> NoFile, access_token |-> 0,
               token_expires_at |-> 0, issued |-> 0 ]
    /\ tokenCalls = << >>
    /\ lastOrder = NoOrder

\* a load that never finds a usable file
LoadTokenNever(file, t) == FALSE

\* _load_token_from_cache: TRUE when the file exists, parses and has not
\* expired
LoadTokenFromCache(file, t) ==
    /\ file.state = "ok"
    /\ t < file.expires_at

SaveOutcomes == {"saved", "failed", "partial"}

\* _save_token_to_cache: the file after the attempt
SaveTokenToCache(file, token, expires_at, outcome) ==
    CASE outcome = "saved" ->
             [state |-> "ok", access_token |-> token, expires_at |-> expires_at]
      [] outcome = "partial" -> CorruptFile
      [] OTHER -> file

\* get_access_token: the client after the call, whether the token endpoint
\* was called, and the token returned (0 when the call raised)
GetAccessToken(c, t, netOk, save) ==
    IF LoadTokenFromCache(c.token_cache_file, t)
    THEN [ c |-> [c EXCEPT !.access_token = c.token_cache_file.access_token,
                           !.token_expires_at = c.token_cache_file.expires_at],
           network |-> FALSE,
           returned |-> c.token_cache_file.access_token ]
    ELSE IF c.access_token # 0 /\ c.token_expires_at # 0 /\ t < c.token_expires_at
    THEN [ c |-> c, network |-> FALSE, returned |-> c.access_token ]
    ELSE IF netOk
    THEN LET token == OldToken + c.issued + 1
             expires_at == t + TokenLife
         IN  [ c |-> [ token_cache_file |->
                           SaveTokenToCache(c.token_cache_file, token,
                                            expires_at, save),
                       access_token |-> token,
                       token_expires_at |-> expires_at,
                       issued |-> c.issued + 1 ],
               network |-> TRUE,
               returned |-> token ]
    ELSE [ c |-> c, network |-> TRUE, returned |-> 0 ]

\* the record of a get_access_token call: what the file held when it began
TokenCallRecord(c, t, r) ==
    [ file_valid |-> /\ c.token_cache_file.state = "ok"
                     /\ c.token_cache_file.expires_at > t,
      file_token |-> c.token_cache_file.access_token,
      network |-> r.network,
      returned |-> r.returned ]

CallGetAccessToken ==
    /\ Len(tokenCalls) < MaxTokenCalls
    /\ \E netOk \in BOOLEAN, save \in SaveOutcomes :
          LET r == GetAccessToken(kis, kisNow, netOk, save)
          IN  /\ kis' = r.c
              /\ tokenCalls' = Append(tokenCalls, TokenCallRecord(kis, kisNow, r))
    /\ UNCHANGED <<kisNow, lastOrder>>

KisTick ==
    /\ kisNow < MaxClock
    /\ kisNow' = kisNow + 1
    /\ UNCHANGED <<kis, tokenCalls, lastOrder>>

\* what get_current_price gives the best-price lookup: the best ask or bid
\* and the last price of the reply, or "raises"
Lookups ==
    {[raises |-> TRUE, best |-> 0, stck_prpr |-> 0]} \cup
    [raises : {FALSE}, best : {0, 101}, stck_prpr : {0, 100}]

\* _get_ask_price_1 and _get_bid_price_1
GetBestPrice(lookup) ==
    IF lookup.raises THEN 0
    ELSE IF lookup.best > 0 THEN lookup.best ELSE lookup.stck_prpr

\* the body of the order request for the price the caller gave
OrderRequest(side, market, price, lookup) ==
    LET p == IF market = "NXT" /\ price = 0 THEN GetBestPrice(lookup) ELSE price
    IN  [ sent |-> TRUE, side |-> side, market |-> market, price_arg |-> price,
          lookup |-> lookup,
          ORD_DVSN |-> IF p > 0 THEN "01" ELSE "00",
          ORD_UNPR |-> p ]

\* buy_order and sell_order: a token is fetched first when the client has
\* none, and the call raises when that fails
PlaceOrder ==
    /\ \E side \in {"buy", "sell"}, market \in {"KRX", "NXT"},
          price \in {0, 100}, lookup \in Lookups :
          IF kis.access_token = 0
          THEN /\ Len(tokenCalls) < MaxTokenCalls
               /\ \E netOk \in BOOLEAN, save \in SaveOutcomes :
                     LET r == GetAccessToken(kis, kisNow, netOk, save)
                     IN  /\ kis' = r.c
                         /\ tokenCalls' = Append(tokenCalls,
                                              TokenCallRecord(kis, kisNow, r))
                         /\ lastOrder' = IF r.returned = 0 THEN NoOrder
                                         ELSE OrderRequest(side, market, price, lookup)
          ELSE /\ lastOrder' = OrderRequest(side, market, price, lookup)
               /\ UNCHANGED <<kis, tokenCalls>>
    /\ UNCHANGED kisNow

KcNext ==
    \/ CallGetAccessToken /\ UNCHANGED kcOthers
    \/ KisTick /\ UNCHANGED kcOthers
    \/ PlaceOrder /\ UNCHANGED kcOthers

\* C26 as claimed: a buy or sell for the NXT venue given price 0 is sent as
\* a limit order at a positive price, the best opposite-side price,
\* whatever the best-price lookup returned.
NxtNeverMarketPrice ==
    (lastOrder.sent /\ lastOrder.market = "NXT" /\ lastOrder.price_arg = 0) =>
        /\ lastOrder.ORD_DVSN = "01"
        /\ lastOrder.ORD_UNPR > 0
        /\ ~lastOrder.lookup.raises
        /\ lastOrder.ORD_UNPR = lastOrder.lookup.best

\* C28: a get_access_token call that finds a cache file with an expiry in
\* the future makes no network call and returns the file's token, and two
\* such calls in a row return the same token.
TokenCacheReuse ==
    /\ \A i \in 1..Len(tokenCalls) :
          tokenCalls[i].file_valid =>
              /\ ~tokenCalls[i].network
              /\ tokenCalls[i].returned = tokenCalls[i].file_token
    /\ \A i \in 1..(Len(tokenCalls) - 1) :
          (tokenCalls[i].file_valid /\ tokenCalls[i + 1].file_valid) =>
              tokenCalls[i].returned = tokenCalls[i + 1].returned

\* C28's case: a new client made two calls and found a file with a future
\* expiry at both
TokenCacheReuseWitness ==
    /\ Len(tokenCalls) >= 2
    /\ tokenCalls[1].file_valid /\ tokenCalls[2].file_valid
    /\ tokenCalls[2].returned # 0
    /\ kis.issued = 0

--------------------------------------------------------------------------
(* KIS client: the stream handshake and its approval key *)

\* settings.kis_ws_approval_key: unset, the placeholder of the sample
\* configuration, or a key somebody configured
ConfigKeys ==
    [source : {"config"},
     value : {"", "your_websocket_approval_key", "configured"},
     serial : {0}]

\* the key the n-th call of the approval endpoint returns
IssuedKey(n) == [source |-> "rest", value |-> "issued", serial |-> n]

SsInit ==
    /\ ws_approval_key \in ConfigKeys
    /\ ws_connection = "none"
    /\ approvalCalls = 0
    /\ handshakes = << >>

SsIdle ==
    /\ ws_approval_key = [source |-> "config", value |-> "", serial |-> 0]
    /\ ws_connection = "none"
    /\ approvalCalls = 0
    /\ handshakes = << >>

\* connect_websocket's test for fetching a key: only when the client holds
\* none or the placeholder
NeedsApprovalKey(key) ==
    key.value \in {"", "your_websocket_approval_key"}

\* what the approval endpoint can give _get_approval_key: a key, a 200 reply
\* without the approval_key field (data.get gives None, kept as the key),
\* or a failure
ApprovalReplies == {"key", "empty", "fail"}

NoKey == [source |-> "rest", value |-> "", serial |-> 0]

\* connect_websocket, called at start, by subscribe_realtime_price and by
\* the manager's reconnect.  connected: websockets.connect succeeds and the
\* approval frame is sent
ConnectWebsocket ==
    /\ Len(handshakes) < MaxConnects
    /\ approvalCalls < MaxApprovalCalls
    /\ \E rest \in ApprovalReplies, connected \in BOOLEAN :
          LET fetch == NeedsApprovalKey(ws_approval_key)
              key == IF ~fetch \/ rest = "fail" THEN ws_approval_key
                     ELSE IF rest = "key" THEN IssuedKey(approvalCalls + 1)
                     ELSE NoKey
          IN  /\ approvalCalls' = IF fetch THEN approvalCalls + 1 ELSE approvalCalls
              /\ ws_approval_key' = key
              /\ IF fetch /\ rest = "fail"
                 THEN UNCHANGED <<ws_connection, handshakes>>
                 ELSE IF connected
                 THEN /\ ws_connection' = "open"
                      /\ handshakes' = Append(handshakes,
                            [ key |-> key, fetched |-> fetch,
                              calls |-> approvalCalls',
                              reconnect |-> ws_connection # "none" ])
                 ELSE UNCHANGED <<ws_connection, handshakes>>

\* the server or the network drops the connection
ConnectionLost ==
    /\ ws_connection = "open"
    /\ ws_connection' = "lost"
    /\ UNCHANGED <<ws_approval_key, approvalCalls, handshakes>>

SsNext ==
    \/ ConnectWebsocket /\ UNCHANGED ssOthers
    \/ ConnectionLost /\ UNCHANGED ssOthers

\* C27 as claimed: every handshake, on a first connect or a reconnect, uses
\* an approval key obtained by a REST call made for that connect, never a
\* key from the configuration or from an earlier connect.
FreshApprovalKey ==
    \A i \in 1..Len(handshakes) :
        /\ handshakes[i].fetched
        /\ handshakes[i].key = IssuedKey(handshakes[i].calls)
        /\ \A j \in 1..(i - 1) : handshakes[j].key # handshakes[i].key

--------------------------------------------------------------------------
(* Balance sync: the stored positions against the broker's balance *)

\* hldg_qty values of a balance row
BalanceQtys == {0, 1, 2}

\* what get_combined_balance returns: one row per stock the broker reports
Balances == UNION {[S -> BalanceQtys] : S \in SUBSET Codes}

\* the latest call is not a sync_portfolio that committed
NoSyncYet == [done |-> FALSE, balance |-> [c \in {} |-> 0],
              portfolio |-> [c \in {} |-> 0]]

SyInit ==
    /\ positions = [c \in {"B"} |-> 2]
    /\ synced = NoSyncYet

\* step 2 of sync_portfolio: the rows of the balance with a quantity other
\* than 0 are written, updating the stored row or adding one; a row of
\* quantity 0 is passed over by `continue`
UpsertBalance(pf, balance) ==
    LET held == {c \in DOMAIN balance : balance[c] # 0}
    IN  [c \in DOMAIN pf \cup held |->
            IF c \in held THEN balance[c] ELSE pf[c]]

\* step 3 of sync_portfolio: the stored rows of quantity 0 are deleted
DeleteZeroRows(pf) ==
    [c \in {d \in DOMAIN pf : pf[d] # 0} |-> pf[c]]

\* sync_portfolio: the balance is read, written and committed, or the call
\* raises and the session is rolled back
SyncPortfolio ==
    \E balance \in Balances, ok \in BOOLEAN :
        LET session == DeleteZeroRows(UpsertBalance(positions, balance))
        IN  /\ positions' = IF ok THEN session ELSE Rollback(positions, session)
            /\ synced' = IF ok
                         THEN [done |-> TRUE, balance |-> balance,
                               portfolio |-> session]
                         ELSE NoSyncYet

\* a buy fill reaches on_execution_notice: _update_portfolio_on_buy
BuyExecuted ==
    \E stock_code \in Codes, quantity \in ExecQtys :
        /\ stock_code \in DOMAIN positions
              => positions[stock_code] + quantity <= MaxHolding
        /\ positions' = UpdatePortfolioOnBuy(positions, stock_code, quantity)
        /\ synced' = NoSyncYet

\* a sell fill reaches on_execution_notice: _update_portfolio_on_sell
SellExecuted ==
    \E stock_code \in Codes, quantity \in ExecQtys :
        /\ positions' = UpdatePortfolioOnSell(positions, stock_code, quantity)
        /\ synced' = NoSyncYet

SyNext ==
    \/ SyncPortfolio /\ UNCHANGED syOthers
    \/ BuyExecuted /\ UNCHANGED syOthers
    \/ SellExecuted /\ UNCHANGED syOthers

\* C39 as claimed: when sync_portfolio has committed, a stock has a stored
\* position exactly when the balance reports it with a quantity above 0.
SyncMirrorsBroker ==
    synced.done =>
        \A c \in Codes :
            c \in DOMAIN synced.portfolio
                <=> (c \in DOMAIN synced.balance /\ synced.balance[c] > 0)

--------------------------------------------------------------------------
(* Specifications *)

PlIdle ==
    /\ pc = "idle"
    /\ stage = "none"
    /\ stageLog = << >>
    /\ errors = {}
    /\ picks = << >>
    /\ candidates = {}
    /\ validated = {}
    /\ decisions = << >>
    /\ approved = {}
    /\ execInput = << >>
    /\ buyOrders = << >>
    /\ syncFailed = FALSE
    /\ prevErrors = {}
    /\ env = CHOOSE x \in Envs : TRUE

vars == <<plVars, sfVars, fbVars, dpVars, scVars, wsVars, trVars, ebVars, orVars, pmVars, brVars, kcVars, ssVars, syVars>>

InitPipeline == PlInit /\ SfIdle /\ FbInit /\ DpInit /\ ScInit /\ WsIdle /\ TrInit /\ EbInit /\ OrInit /\ PmInit /\ BrIdle /\ KcIdle /\ SsIdle /\ SyInit

InitSafety == SfInit /\ PlIdle /\ FbInit /\ DpInit /\ ScInit /\ WsIdle /\ TrInit /\ EbInit /\ OrInit /\ PmInit /\ BrIdle /\ KcIdle /\ SsIdle /\ SyInit

InitFeedback == FbInit /\ PlIdle /\ SfIdle /\ DpInit /\ ScInit /\ WsIdle /\ TrInit /\ EbInit /\ OrInit /\ PmInit /\ BrIdle /\ KcIdle /\ SsIdle /\ SyInit

InitDispatcher == DpInit /\ PlIdle /\ SfIdle /\ FbInit /\ ScInit /\ WsIdle /\ TrInit /\ EbInit /\ OrInit /\ PmInit /\ BrIdle /\ KcIdle /\ SsIdle /\ SyInit

InitScheduler == ScInit /\ PlIdle /\ SfIdle /\ FbInit /\ DpInit /\ WsIdle /\ TrInit /\ EbInit /\ OrInit /\ PmInit /\ BrIdle /\ KcIdle /\ SsIdle /\ SyInit

InitWS ==
    WsInit /\ PlIdle /\ SfIdle /\ FbInit /\ DpInit /\ ScInit /\ TrInit /\ EbInit /\ OrInit /\ PmInit /\ BrIdle /\ KcIdle /\ SsIdle /\ SyInit

InitTraps ==
    TrInit /\ PlIdle /\ SfIdle /\ FbInit /\ DpInit /\ ScInit /\ WsIdle /\ EbInit /\ OrInit /\ PmInit /\ BrIdle /\ KcIdle /\ SsIdle /\ SyInit

InitBus ==
    EbInit /\ PlIdle /\ SfIdle /\ FbInit /\ DpInit /\ ScInit /\ WsIdle /\ TrInit /\ OrInit /\ PmInit /\ BrIdle /\ KcIdle /\ SsIdle /\ SyInit

InitOrders ==
    OrInit /\ PlIdle /\ SfIdle /\ FbInit /\ DpInit /\ ScInit /\ WsIdle /\ TrInit /\ EbInit /\ PmInit /\ BrIdle /\ KcIdle /\ SsIdle /\ SyInit

InitPortfolio ==
    PmInit /\ PlIdle /\ SfIdle /\ FbInit /\ DpInit /\ ScInit /\ WsIdle /\ TrInit /\ EbInit /\ OrInit /\ BrIdle /\ KcIdle /\ SsIdle /\ SyInit

InitBrain ==
    BrInit /\ PlIdle /\ SfIdle /\ FbInit /\ DpInit /\ ScInit /\ WsIdle /\ TrInit /\ EbInit /\ OrInit /\ PmInit /\ KcIdle /\ SsIdle /\ SyInit

InitClient ==
    KcInit /\ PlIdle /\ SfIdle /\ FbInit /\ DpInit /\ ScInit /\ WsIdle /\ TrInit /\ EbInit /\ OrInit /\ PmInit /\ BrIdle /\ SsIdle /\ SyInit

InitStream ==
    SsInit /\ PlIdle /\ SfIdle /\ FbInit /\ DpInit /\ ScInit /\ WsIdle /\ TrInit /\ EbInit /\ OrInit /\ PmInit /\ BrIdle /\ KcIdle /\ SyInit

InitSync ==
    SyInit /\ PlIdle /\ SfIdle /\ FbInit /\ DpInit /\ ScInit /\ WsIdle /\ TrInit /\ EbInit /\ OrInit /\ PmInit /\ BrIdle /\ KcIdle /\ SsIdle

SpecPipeline == InitPipeline /\ [][PlNext]_vars

SpecSafety == InitSafety /\ [][SfNext]_vars

SpecFeedback == InitFeedback /\ [][FbNext]_vars

SpecDispatcher == InitDispatcher /\ [][DpNext]_vars

SpecScheduler == InitScheduler /\ [][ScNext]_vars

SpecWS == InitWS /\ [][WsNext]_vars

SpecTraps == InitTraps /\ [][TrNext]_vars

SpecBus == InitBus /\ [][EbNext]_vars

SpecOrders == InitOrders /\ [][OrNext]_vars

SpecPortfolio == InitPortfolio /\ [][PmNext]_vars

SpecBrain == InitBrain /\ [][BrNext]_vars

SpecClient == InitClient /\ [][KcNext]_vars

SpecStream == InitStream /\ [][SsNext]_vars

SpecSync == InitSync /\ [][SyNext]_vars

==========================================================================
